---- MODULE Spec2Model ----
(***************************************************************************)
(* A model of the render-command compilation pipeline of the stereogram    *)
(* demo: RenderStage's incremental projection matrix, RenderObject's       *)
(* compilation of a scene object's command list into closures, the render  *)
(* commands' prepare methods, uniformSource.getPropertyReader, the typed   *)
(* arrays SceneObject chooses, RenderContext's aspect pair and render      *)
(* loop, and the animation callback of the demo.                           *)
(*                                                                         *)
(* Numbers.  JavaScript numbers are IEEE-754 doubles.  A double that is    *)
(* the result of Math.tan or of a product with it is written as the        *)
(* decimal literal JavaScript prints for it ("0.9999999999999999"), so     *)
(* that equality of two such strings is bit-equality of the doubles.  The  *)
(* two depth entries are quotients of small integers; they are written as  *)
(* reduced fractions <<num, den>>, on which the correctly rounded IEEE     *)
(* quotient is injective for the values used here.                         *)
(***************************************************************************)
EXTENDS Integers, Sequences, FiniteSets, TLC

VARIABLES
    \* ---- one RenderStage (RenderStage.mjs) ----
    fieldOfView, zNear, zFar,          \* public, assignable between renders
    _fieldOfView, _viewRange,          \* caches of _adjustPerspectiveXY
    _aspectX, _aspectY,
    _zNear, _zFar,                     \* caches of _adjustPerspectiveZW
    projection,                        \* the Mat4, a function on 0..15
    lastCall,                          \* the last operation applied to the stage
    \* ---- one scene object and the stage compiled from it ----
    sceneObject,                       \* SceneObject: commands, arrays, flags
    renderStage,                       \* the RenderStage constructed over it
    \* ---- a direct call of one of the pipeline's functions ----
    call,                              \* the function and its arguments
    outcome,                           \* what the call returned or threw
    \* ---- the canvases, the scene and the RenderContexts built on them ----
    canvases,                          \* per canvas: scroll size, backing size
    theScene,                          \* the scene: SceneObjects, with their matrix
    renderContexts,                    \* the RenderContexts and their stages
    glCalls,                           \* what the last render() / frame did
    console,                           \* the errors console.error was given
    \* ---- the shader utilities (shaderutil.mjs) ----
    _cache,                            \* the two source caches, vertex and fragment
    urlObjects,                        \* how many URL objects have been allocated
    loads,                             \* the requests loadShader has sent
    glShaders,                         \* the WebGLShader objects created so far
    lastShader,                        \* what the last shader creation did
    tasks,                             \* the asynchronous compileAndLinkProgram under way
    \* ---- the animation loop (startAnimationLoop) ----
    then,                              \* the time stamp of the last frame, 0: undefined
    animationFrameCallbacks            \* the callbacks requested for the next frame

stageVars == <<fieldOfView, zNear, zFar, _fieldOfView, _viewRange,
               _aspectX, _aspectY, _zNear, _zFar, projection, lastCall>>

compileVars == <<sceneObject, renderStage>>

callVars == <<call, outcome>>

contextVars == <<canvases, theScene, renderContexts, glCalls, console>>

shaderVars == <<_cache, urlObjects, loads, glShaders, lastShader, tasks>>

loopVars == <<then, animationFrameCallbacks>>

vars == <<stageVars, compileVars, callVars, contextVars, shaderVars, loopVars>>

----------------------------------------------------------------------------
(* Doubles                                                                 *)

\* JavaScript's Infinity, as a number above every finite plane distance used.
Infinity == 1000

\* The largest finite plane distance the stage is given.
MaxPlane == 3

\* The field-of-view values (degrees) the stage is given.
FieldsOfView == {60, 90, 120}

\* The aspect values handed to render: height/width or width/height of a
\* surface, or 1.0.
Aspects == {"1", "0.5", "0.75"}

\* Math.tan(Math.PI * 0.5 * (1.0 - fieldOfView / 180.0)) in IEEE-754 doubles.
\* Math.PI * 0.25 lies below pi/4, and the tangent rounds to 1 - 2^-53.
ViewRangeOf(fov) ==
    CASE fov = 60  -> "1.7320508075688776"
      [] fov = 90  -> "0.9999999999999999"
      [] fov = 120 -> "0.5773502691896258"

\* The IEEE-754 product range * aspect.
MulD(range, aspect) ==
    CASE aspect = "1" -> range
      [] range = "1" -> aspect
      [] range = "1.7320508075688776" /\ aspect = "0.5"  -> "0.8660254037844388"
      [] range = "1.7320508075688776" /\ aspect = "0.75" -> "1.2990381056766582"
      [] range = "0.9999999999999999" /\ aspect = "0.5"  -> "0.49999999999999994"
      [] range = "0.9999999999999999" /\ aspect = "0.75" -> "0.7499999999999999"
      [] range = "0.5773502691896258" /\ aspect = "0.5"  -> "0.2886751345948129"
      [] range = "0.5773502691896258" /\ aspect = "0.75" -> "0.4330127018922194"

Abs(n) == IF n < 0 THEN -n ELSE n

RECURSIVE Gcd(_, _)
Gcd(a, b) == IF b = 0 THEN a ELSE Gcd(b, a % b)

\* The quotient n / d of two integers: a reduced fraction, <<1, 0>> for
\* +Infinity and <<-1, 0>> for -Infinity (n # 0 whenever d = 0 here).
Frac(n, d) ==
    IF d = 0 THEN <<IF n < 0 THEN -1 ELSE 1, 0>>
    ELSE LET g == Gcd(Abs(n), Abs(d))
             s == IF d < 0 THEN -1 ELSE 1
         IN  <<s * (n \div g), s * (d \div g)>>

----------------------------------------------------------------------------
(* RenderStage: the projection matrix                                      *)

\* The matrix _initPerspective installs.
Skeleton ==
    [i \in 0..15 |->
        CASE i = 0  -> "1"
          [] i = 5  -> "1"
          [] i = 10 -> Frac(1, 1)
          [] i = 11 -> "1"
          [] i = 14 -> Frac(-2, 1)
          [] OTHER  -> "0"]

PerspectiveZ(near, far) ==
    IF far < Infinity THEN Frac(near + far, far - near) ELSE Frac(1, 1)

PerspectiveW(near, far) ==
    IF far < Infinity THEN Frac(-2 * near * far, far - near) ELSE Frac(-2 * near, 1)

\* The from-scratch computation.
calculatePerspective(fov, aspectX, aspectY, near, far) ==
    LET range == ViewRangeOf(fov)
    IN  [i \in 0..15 |->
            CASE i = 0  -> MulD(range, aspectX)
              [] i = 5  -> MulD(range, aspectY)
              [] i = 10 -> PerspectiveZ(near, far)
              [] i = 11 -> "1"
              [] i = 14 -> PerspectiveW(near, far)
              [] OTHER  -> "0"]

\* The values the constructor leaves in the caches: the NaN sentinels are
\* overwritten by _initPerspective before the constructor returns.
_initPerspective ==
    /\ _fieldOfView = 90
    /\ _viewRange = "1"
    /\ _aspectX = "1"
    /\ _aspectY = "1"
    /\ _zNear = 1
    /\ _zFar = Infinity
    /\ projection = Skeleton

\* new RenderStage(gl, scene, {fieldOfView, zNear, zFar, ...})
StageInit ==
    /\ fieldOfView \in FieldsOfView
    /\ zNear \in 1..2
    /\ zFar \in (2..MaxPlane) \cup {Infinity}
    /\ _initPerspective
    /\ lastCall = [op |-> "new"]

\* An _adjustPerspectiveXY that writes both entries on every call.
AdjustedXYAlways(m, aspectX, aspectY) ==
    [m EXCEPT ![0] = MulD(ViewRangeOf(fieldOfView), aspectX),
              ![5] = MulD(ViewRangeOf(fieldOfView), aspectY)]

\* _adjustPerspectiveXY: the matrix after it, given the matrix before.
AdjustedXY(m, aspectX, aspectY) ==
    LET changedFieldOfView == fieldOfView # _fieldOfView
        changedAspectX == aspectX # _aspectX
        changedAspectY == aspectY # _aspectY
        range == IF changedFieldOfView THEN ViewRangeOf(fieldOfView) ELSE _viewRange
        m0 == IF changedAspectX \/ changedFieldOfView
              THEN [m EXCEPT ![0] = MulD(range, aspectX)] ELSE m
    IN  IF changedAspectY \/ changedFieldOfView
        THEN [m0 EXCEPT ![5] = MulD(range, aspectY)] ELSE m0

\* _adjustPerspectiveZW: the matrix after it, given the matrix before.
AdjustedZW(m) ==
    LET changedZNear == zNear # _zNear
        changedZFar == zFar # _zFar
    IN  IF changedZFar \/ changedZNear
        THEN [m EXCEPT ![10] = PerspectiveZ(zNear, zFar),
                       ![14] = PerspectiveW(zNear, zFar)]
        ELSE m

\* RenderStage.render(aspectX, aspectY), the part that maintains the matrix.
StageRender(aspectX, aspectY) ==
    /\ _viewRange' = IF fieldOfView # _fieldOfView
                     THEN ViewRangeOf(fieldOfView) ELSE _viewRange
    /\ _fieldOfView' = fieldOfView
    /\ _aspectX' = aspectX
    /\ _aspectY' = aspectY
    /\ _zNear' = zNear
    /\ _zFar' = zFar
    /\ projection' = AdjustedZW(AdjustedXY(projection, aspectX, aspectY))
    /\ lastCall' = [op |-> "render", aspectX |-> aspectX, aspectY |-> aspectY]
    /\ UNCHANGED <<fieldOfView, zNear, zFar>>
    /\ UNCHANGED <<compileVars, callVars, contextVars, shaderVars, loopVars>>

\* stage.fieldOfView = v, by the stage's owner between two renders.
SetFieldOfView(v) ==
    /\ v # fieldOfView
    /\ fieldOfView' = v
    /\ lastCall' = [op |-> "set"]
    /\ UNCHANGED <<zNear, zFar, _fieldOfView, _viewRange, _aspectX, _aspectY,
                   _zNear, _zFar, projection>>
    /\ UNCHANGED <<compileVars, callVars, contextVars, shaderVars, loopVars>>

\* stage.zNear = v
SetZNear(v) ==
    /\ v # zNear
    /\ zNear' = v
    /\ lastCall' = [op |-> "set"]
    /\ UNCHANGED <<fieldOfView, zFar, _fieldOfView, _viewRange, _aspectX, _aspectY,
                   _zNear, _zFar, projection>>
    /\ UNCHANGED <<compileVars, callVars, contextVars, shaderVars, loopVars>>

\* stage.zFar = v
SetZFar(v) ==
    /\ v # zFar
    /\ zFar' = v
    /\ lastCall' = [op |-> "set"]
    /\ UNCHANGED <<fieldOfView, zNear, _fieldOfView, _viewRange, _aspectX, _aspectY,
                   _zNear, _zFar, projection>>
    /\ UNCHANGED <<compileVars, callVars, contextVars, shaderVars, loopVars>>

StageNext ==
    \/ \E ax \in Aspects, ay \in Aspects : StageRender(ax, ay)
    \/ \E v \in FieldsOfView : SetFieldOfView(v)
    \/ \E v \in 1..2 : SetZNear(v)
    \/ \E v \in (2..MaxPlane) \cup {Infinity} : SetZFar(v)

\* A stage with the constructor's defaults, for the specifications that do
\* not render.
StageDefault ==
    /\ fieldOfView = 90
    /\ zNear = 1
    /\ zFar = Infinity
    /\ _initPerspective
    /\ lastCall = [op |-> "new"]

----------------------------------------------------------------------------
(* Results of calls: a value returned or an exception thrown               *)

Returned(v) == [threw |-> FALSE, value |-> v]

Thrown(name, message) == [threw |-> TRUE, name |-> name, message |-> message]

\* A Map without entries.
EmptyMap == [k \in {} |-> k]

\* Map.prototype.set
MapSet(m, k, v) == [x \in DOMAIN m \cup {k} |-> IF x = k THEN v ELSE m[x]]

----------------------------------------------------------------------------
(* JavaScript values held in properties                                    *)

\* A Mat4: a Float32Array subclass whose constructor admits 16 elements
\* only.  data names the contents.
Mat4Value(data) == [class |-> "Mat4", length |-> 16, data |-> data]

\* new Float32Array of the given length.
Float32ArrayValue(length, data) ==
    [class |-> "Float32Array", length |-> length, data |-> data]

\* A plain Array of numbers.
ArrayValue(length, data) == [class |-> "Array", length |-> length, data |-> data]

Undefined == [class |-> "undefined"]

\* value instanceof Float32Array: Mat4 extends Float32Array.
IsFloat32Array(value) == value.class \in {"Float32Array", "Mat4"}

\* value instanceof Mat4
IsMat4(value) == value.class = "Mat4"

\* Mat4.identity()
Identity == Mat4Value(<<"identity", 0>>)

----------------------------------------------------------------------------
(* Inclusion flags                                                         *)

\* a & b on non-negative integers.
RECURSIVE BitAnd(_, _)
BitAnd(a, b) ==
    IF a = 0 \/ b = 0 THEN 0
    ELSE (a % 2) * (b % 2) + 2 * BitAnd(a \div 2, b \div 2)

\* ~0, the default of every inclusionFlags: all flag bits in use are set.
AllFlags == 3

----------------------------------------------------------------------------
(* uniformSource                                                           *)

RENDER_OBJECT == 1
RENDER_STAGE == 2
SCENE_OBJECT == 3
FIRST_FOUND == 0

\* uniformSource._makePropertyReader: the closure () => obj[name].
_makePropertyReader(obj, name) == [fn |-> "() => obj[name]", obj |-> obj, name |-> name]

\* Calling a reader.
Read(reader) == reader.obj[reader.name]

\* The for loop of getPropertyReader, from candidate i on.
RECURSIVE FirstWithProperty(_, _, _)
FirstWithProperty(candidates, name, i) ==
    IF i > Len(candidates)
    THEN Thrown("ReferenceError", "property not found")
    ELSE IF name \in DOMAIN candidates[i]
    THEN Returned(_makePropertyReader(candidates[i], name))
    ELSE FirstWithProperty(candidates, name, i + 1)

\* The switch with the stage searched before the render object.
CandidatesStageFirst(source, renderObject, stage) ==
    CASE source = RENDER_OBJECT -> Returned(<<renderObject>>)
      [] source = RENDER_STAGE  -> Returned(<<stage>>)
      [] source = SCENE_OBJECT  -> Returned(<<renderObject["sceneObject"]>>)
      [] source = FIRST_FOUND   ->
            Returned(<<stage, renderObject, renderObject["sceneObject"]>>)
      [] OTHER -> Thrown("RangeError", "unsupported uniform source")

\* The switch of getPropertyReader.
Candidates(source, renderObject, stage) ==
    CASE source = RENDER_OBJECT -> Returned(<<renderObject>>)
      [] source = RENDER_STAGE  -> Returned(<<stage>>)
      [] source = SCENE_OBJECT  -> Returned(<<renderObject["sceneObject"]>>)
      [] source = FIRST_FOUND   ->
            Returned(<<renderObject, stage, renderObject["sceneObject"]>>)
      [] OTHER -> Thrown("RangeError", "unsupported uniform source")

\* getPropertyReader whose switch has no default that throws: a source it
\* does not know is searched like FIRST_FOUND, and a single candidate that
\* lacks the property falls back on the other objects.
getPropertyReaderLenient(source, name, renderObject, stage) ==
    LET all == <<renderObject, stage, renderObject["sceneObject"]>>
        first == CASE source = RENDER_OBJECT -> <<renderObject>>
                   [] source = RENDER_STAGE  -> <<stage>>
                   [] source = SCENE_OBJECT  -> <<renderObject["sceneObject"]>>
                   [] OTHER -> <<>>
    IN  FirstWithProperty(first \o all, name, 1)

\* uniformSource.getPropertyReader(source, name, renderObject, renderStage)
getPropertyReader(source, name, renderObject, stage) ==
    LET candidates == Candidates(source, renderObject, stage)
    IN  IF candidates.threw THEN candidates
        ELSE FirstWithProperty(candidates.value, name, 1)

----------------------------------------------------------------------------
(* Render commands                                                         *)

\* drawMode.TRIANGLES, TRIANGLE_FAN, TRIANGLE_STRIP
DrawModes == {1, 2, 3}

\* drawMode.toGLMode
toGLMode(mode) ==
    CASE mode = 1 -> Returned("gl.TRIANGLES")
      [] mode = 2 -> Returned("gl.TRIANGLE_FAN")
      [] mode = 3 -> Returned("gl.TRIANGLE_STRIP")
      [] OTHER    -> Thrown("Error", "unknown drawMode")

\* The constructor without its test of the offset.
NewCmdSetAttribAnyOffset(attribName, bufferName, size, stride, offset, inclusionFlags) ==
    IF size # 0 /\ (size < 1 \/ size > 4)
    THEN Thrown("RangeError", "size must be between 1 and 4 or null")
    ELSE IF stride < 0
    THEN Thrown("RangeError", "stride must not be negative")
    ELSE Returned([kind |-> "CmdSetAttrib",
                   inclusionFlags |-> inclusionFlags,
                   attribName |-> attribName,
                   bufferName |-> bufferName,
                   size |-> size,
                   normalized |-> FALSE,
                   stride |-> stride,
                   offset |-> offset])

\* new CmdSetAttrib(attribName, bufferName, {size, stride, offset, inclusionFlags})
\* size, stride and offset already defaulted to 0 when absent.
NewCmdSetAttrib(attribName, bufferName, size, stride, offset, inclusionFlags) ==
    IF size # 0 /\ (size < 1 \/ size > 4)
    THEN Thrown("RangeError", "size must be between 1 and 4 or null")
    ELSE IF stride < 0
    THEN Thrown("RangeError", "stride must not be negative")
    ELSE IF offset < 0
    THEN Thrown("RangeError", "offset must not be negative")
    ELSE Returned([kind |-> "CmdSetAttrib",
                   inclusionFlags |-> inclusionFlags,
                   attribName |-> attribName,
                   bufferName |-> bufferName,
                   size |-> size,
                   normalized |-> FALSE,
                   stride |-> stride,
                   offset |-> offset])

\* The constructor without its last statement: the flags of a command with
\* count 0 are left as passed.
NewCmdDrawElementsKeepingFlags(bufferName, mode, count, offset, inclusionFlags) ==
    IF count < 0
    THEN Thrown("RangeError", "count must not be negative")
    ELSE IF offset < 0
    THEN Thrown("RangeError", "offset must not be negative")
    ELSE Returned([kind |-> "CmdDrawElements",
                   inclusionFlags |-> inclusionFlags,
                   bufferName |-> bufferName,
                   mode |-> mode,
                   count |-> count,
                   offset |-> offset])

\* new CmdDrawElements(bufferName, mode, {count, offset, inclusionFlags});
\* an absent count is Infinity.
NewCmdDrawElements(bufferName, mode, count, offset, inclusionFlags) ==
    IF count < 0
    THEN Thrown("RangeError", "count must not be negative")
    ELSE IF offset < 0
    THEN Thrown("RangeError", "offset must not be negative")
    ELSE Returned([kind |-> "CmdDrawElements",
                   inclusionFlags |-> IF count = 0 THEN 0 ELSE inclusionFlags,
                   bufferName |-> bufferName,
                   mode |-> mode,
                   count |-> count,
                   offset |-> offset])

\* RenderObject._getBufferSpecs
_getBufferSpecs(bufferArray) ==
    CASE bufferArray.type = "Uint8Array"   -> Returned([byteSize |-> 1, type |-> "gl.UNSIGNED_BYTE"])
      [] bufferArray.type = "Uint16Array"  -> Returned([byteSize |-> 2, type |-> "gl.UNSIGNED_SHORT"])
      [] bufferArray.type = "Float32Array" -> Returned([byteSize |-> 4, type |-> "gl.FLOAT"])
      [] bufferArray.type = "Int8Array"    -> Returned([byteSize |-> 1, type |-> "gl.BYTE"])
      [] bufferArray.type = "Int16Array"   -> Returned([byteSize |-> 2, type |-> "gl.SHORT"])
      [] OTHER -> Thrown("Error", "unsupported buffer array type")

\* RenderObject._getGLTypeSize
_getGLTypeSize(type) ==
    CASE type = "gl.FLOAT"      -> Returned(1)
      [] type = "gl.FLOAT_VEC2" -> Returned(2)
      [] type = "gl.FLOAT_VEC3" -> Returned(3)
      [] type = "gl.FLOAT_VEC4" -> Returned(4)
      [] OTHER -> Thrown("TypeError", "unsupported WebGL type")

\* prepare with the buffer looked up before the attribute.
CmdSetAttrib_prepareBufferFirst(cmd, renderObject) ==
    IF cmd.bufferName \notin DOMAIN renderObject.attribBuffers
    THEN Thrown("ReferenceError", "missing attribute buffer")
    ELSE IF cmd.attribName \notin DOMAIN renderObject.attribs
    THEN Returned(<<>>)
    ELSE
      LET attrib == renderObject.attribs[cmd.attribName]
          attribBuffer == renderObject.attribBuffers[cmd.bufferName]
          size == IF cmd.size # 0 THEN cmd.size ELSE attrib.size
          byteStride == cmd.stride * attribBuffer.byteSize
          byteOffset == cmd.offset * attribBuffer.byteSize
      IN  IF cmd.offset > attribBuffer.length
          THEN Thrown("RangeError", "offset beyond end of buffer")
          ELSE IF cmd.offset + size > attribBuffer.length
          THEN Thrown("RangeError", "no attribute fits before end of buffer")
          ELSE IF byteStride > 255
          THEN Thrown("RangeError", "stride is too big")
          ELSE Returned(<<[fn |-> "CmdSetAttrib._cmd",
                           location |-> attrib.location,
                           buffer |-> attribBuffer.buffer,
                           size |-> size,
                           type |-> attribBuffer.type,
                           normalized |-> cmd.normalized,
                           stride |-> byteStride,
                           offset |-> byteOffset]>>)

\* prepare without its test of the byte stride.
CmdSetAttrib_prepareAnyStride(cmd, renderObject) ==
    IF cmd.attribName \notin DOMAIN renderObject.attribs
    THEN Returned(<<>>)
    ELSE IF cmd.bufferName \notin DOMAIN renderObject.attribBuffers
    THEN Thrown("ReferenceError", "missing attribute buffer")
    ELSE
      LET attrib == renderObject.attribs[cmd.attribName]
          attribBuffer == renderObject.attribBuffers[cmd.bufferName]
          size == IF cmd.size # 0 THEN cmd.size ELSE attrib.size
          byteStride == cmd.stride * attribBuffer.byteSize
          byteOffset == cmd.offset * attribBuffer.byteSize
      IN  IF cmd.offset > attribBuffer.length
          THEN Thrown("RangeError", "offset beyond end of buffer")
          ELSE IF cmd.offset + size > attribBuffer.length
          THEN Thrown("RangeError", "no attribute fits before end of buffer")
          ELSE Returned(<<[fn |-> "CmdSetAttrib._cmd",
                           location |-> attrib.location,
                           buffer |-> attribBuffer.buffer,
                           size |-> size,
                           type |-> attribBuffer.type,
                           normalized |-> cmd.normalized,
                           stride |-> byteStride,
                           offset |-> byteOffset]>>)

\* CmdSetAttrib.prepare(renderObject, ignored)
CmdSetAttrib_prepare(cmd, renderObject) ==
    IF cmd.attribName \notin DOMAIN renderObject.attribs
    THEN Returned(<<>>)
    ELSE IF cmd.bufferName \notin DOMAIN renderObject.attribBuffers
    THEN Thrown("ReferenceError", "missing attribute buffer")
    ELSE
      LET attrib == renderObject.attribs[cmd.attribName]
          attribBuffer == renderObject.attribBuffers[cmd.bufferName]
          size == IF cmd.size # 0 THEN cmd.size ELSE attrib.size
          byteStride == cmd.stride * attribBuffer.byteSize
          byteOffset == cmd.offset * attribBuffer.byteSize
      IN  IF cmd.offset > attribBuffer.length
          THEN Thrown("RangeError", "offset beyond end of buffer")
          ELSE IF cmd.offset + size > attribBuffer.length
          THEN Thrown("RangeError", "no attribute fits before end of buffer")
          ELSE IF byteStride > 255
          THEN Thrown("RangeError", "stride is too big")
          ELSE Returned(<<[fn |-> "CmdSetAttrib._cmd",
                           location |-> attrib.location,
                           buffer |-> attribBuffer.buffer,
                           size |-> size,
                           type |-> attribBuffer.type,
                           normalized |-> cmd.normalized,
                           stride |-> byteStride,
                           offset |-> byteOffset]>>)

\* prepare with the count tested against the whole length, the offset left
\* out of the bound.
CmdDrawElements_prepareCountAgainstLength(cmd, renderObject) ==
    IF cmd.bufferName \notin DOMAIN renderObject.elementBuffers
    THEN Thrown("ReferenceError", "missing element buffer")
    ELSE
      LET elementBuffer == renderObject.elementBuffers[cmd.bufferName]
          length == elementBuffer.length
          count == IF cmd.count = Infinity THEN length - cmd.offset ELSE cmd.count
          byteOffset == cmd.offset * elementBuffer.byteSize
          mode == toGLMode(cmd.mode)
      IN  IF cmd.offset > length
          THEN Thrown("RangeError", "offset beyond end of buffer")
          ELSE IF cmd.count # Infinity /\ cmd.count > length
          THEN Thrown("RangeError", "count goes beyond end of buffer")
          ELSE IF count = 0
          THEN Returned(<<>>)
          ELSE IF mode.threw
          THEN mode
          ELSE Returned(<<[fn |-> "CmdDrawElements._cmd",
                           buffer |-> elementBuffer.buffer,
                           mode |-> mode.value,
                           count |-> count,
                           type |-> elementBuffer.type,
                           offset |-> byteOffset]>>)

\* CmdDrawElements.prepare(renderObject, renderStage)
CmdDrawElements_prepare(cmd, renderObject) ==
    IF cmd.bufferName \notin DOMAIN renderObject.elementBuffers
    THEN Thrown("ReferenceError", "missing element buffer")
    ELSE
      LET elementBuffer == renderObject.elementBuffers[cmd.bufferName]
          length == elementBuffer.length
          count == IF cmd.count = Infinity THEN length - cmd.offset ELSE cmd.count
          byteOffset == cmd.offset * elementBuffer.byteSize
          mode == toGLMode(cmd.mode)
      IN  IF cmd.offset > length
          THEN Thrown("RangeError", "offset beyond end of buffer")
          ELSE IF cmd.count # Infinity /\ cmd.count > length - cmd.offset
          THEN Thrown("RangeError", "count goes beyond end of buffer")
          ELSE IF count = 0
          THEN Returned(<<>>)
          ELSE IF mode.threw
          THEN mode
          ELSE Returned(<<[fn |-> "CmdDrawElements._cmd",
                           buffer |-> elementBuffer.buffer,
                           mode |-> mode.value,
                           count |-> count,
                           type |-> elementBuffer.type,
                           offset |-> byteOffset]>>)

\* new CmdUniformMatrix(uniformName, propertyName, {source, transpose,
\* inclusionFlags}): the constructors of the chain check nothing.
NewCmdUniformMatrix(uniformName, propertyName, source, transpose, inclusionFlags) ==
    Returned([kind |-> "CmdUniformMatrix",
              inclusionFlags |-> inclusionFlags,
              uniformName |-> uniformName,
              source |-> source,
              propertyName |-> propertyName,
              transpose |-> transpose])

\* The closure of _cmdMat4, _cmdF32A16, _cmdF32A9 or _cmdF32A4: it keeps the
\* reader, not a value.
UniformClosure(fn, upload, location, transpose, reader) ==
    [fn |-> fn, upload |-> upload, location |-> location,
     transpose |-> transpose, reader |-> reader]

\* A prepare that dispatches on the uniform's type and on the value being
\* a Float32Array, whatever its length.
CmdUniformMatrix_prepareAnyLength(cmd, renderObject, stage) ==
    LET reader == getPropertyReader(cmd.source, cmd.propertyName, renderObject, stage)
    IN  IF reader.threw THEN reader
        ELSE IF cmd.uniformName \notin DOMAIN renderObject.uniforms
        THEN Returned(<<>>)
        ELSE
          LET uniform == renderObject.uniforms[cmd.uniformName]
              value == Read(reader.value)
              One(fn, upload) ==
                  Returned(<<UniformClosure(fn, upload, uniform.location,
                                            cmd.transpose, reader.value)>>)
          IN  CASE uniform.type = "gl.FLOAT_MAT4" ->
                    IF IsMat4(value)
                    THEN One("CmdUniformMatrix._cmdMat4", "gl.uniformMatrix4fv")
                    ELSE IF IsFloat32Array(value)
                    THEN One("CmdUniformMatrix._cmdF32A16", "gl.uniformMatrix4fv")
                    ELSE Thrown("TypeError", "property is not a 4x4 matrix")
                [] uniform.type = "gl.FLOAT_MAT3" ->
                    IF IsFloat32Array(value)
                    THEN One("CmdUniformMatrix._cmdF32A9", "gl.uniformMatrix3fv")
                    ELSE Thrown("TypeError", "property is not a 3x3 matrix")
                [] uniform.type = "gl.FLOAT_MAT2" ->
                    IF IsFloat32Array(value)
                    THEN One("CmdUniformMatrix._cmdF32A4", "gl.uniformMatrix2fv")
                    ELSE Thrown("TypeError", "property is not a 2x2 matrix")
                [] OTHER -> Thrown("TypeError", "uniform is not a supported matrix")

\* A prepare that looks up the uniform first and resolves the property
\* only for a uniform the program has.
CmdUniformMatrix_prepareUniformFirst(cmd, renderObject, stage) ==
    IF cmd.uniformName \notin DOMAIN renderObject.uniforms
    THEN Returned(<<>>)
    ELSE
      LET reader == getPropertyReader(cmd.source, cmd.propertyName, renderObject, stage)
      IN  IF reader.threw THEN reader
          ELSE
            LET uniform == renderObject.uniforms[cmd.uniformName]
                value == Read(reader.value)
                One(fn, upload) ==
                    Returned(<<UniformClosure(fn, upload, uniform.location,
                                              cmd.transpose, reader.value)>>)
            IN  CASE uniform.type = "gl.FLOAT_MAT4" ->
                      IF IsMat4(value)
                      THEN One("CmdUniformMatrix._cmdMat4", "gl.uniformMatrix4fv")
                      ELSE IF IsFloat32Array(value) /\ value.length = 16
                      THEN One("CmdUniformMatrix._cmdF32A16", "gl.uniformMatrix4fv")
                      ELSE Thrown("TypeError", "property is not a 4x4 matrix")
                  [] uniform.type = "gl.FLOAT_MAT3" ->
                      IF IsFloat32Array(value) /\ value.length = 9
                      THEN One("CmdUniformMatrix._cmdF32A9", "gl.uniformMatrix3fv")
                      ELSE Thrown("TypeError", "property is not a 3x3 matrix")
                  [] uniform.type = "gl.FLOAT_MAT2" ->
                      IF IsFloat32Array(value) /\ value.length = 4
                      THEN One("CmdUniformMatrix._cmdF32A4", "gl.uniformMatrix2fv")
                      ELSE Thrown("TypeError", "property is not a 2x2 matrix")
                  [] OTHER -> Thrown("TypeError", "uniform is not a supported matrix")

\* CmdUniformMatrix.prepare(renderObject, renderStage)
CmdUniformMatrix_prepare(cmd, renderObject, stage) ==
    LET reader == getPropertyReader(cmd.source, cmd.propertyName, renderObject, stage)
    IN  IF reader.threw THEN reader
        ELSE IF cmd.uniformName \notin DOMAIN renderObject.uniforms
        THEN Returned(<<>>)
        ELSE
          LET uniform == renderObject.uniforms[cmd.uniformName]
              value == Read(reader.value)
              One(fn, upload) ==
                  Returned(<<UniformClosure(fn, upload, uniform.location,
                                            cmd.transpose, reader.value)>>)
          IN  CASE uniform.type = "gl.FLOAT_MAT4" ->
                    IF IsMat4(value)
                    THEN One("CmdUniformMatrix._cmdMat4", "gl.uniformMatrix4fv")
                    ELSE IF IsFloat32Array(value) /\ value.length = 16
                    THEN One("CmdUniformMatrix._cmdF32A16", "gl.uniformMatrix4fv")
                    ELSE Thrown("TypeError", "property is not a 4x4 matrix")
                [] uniform.type = "gl.FLOAT_MAT3" ->
                    IF IsFloat32Array(value) /\ value.length = 9
                    THEN One("CmdUniformMatrix._cmdF32A9", "gl.uniformMatrix3fv")
                    ELSE Thrown("TypeError", "property is not a 3x3 matrix")
                [] uniform.type = "gl.FLOAT_MAT2" ->
                    IF IsFloat32Array(value) /\ value.length = 4
                    THEN One("CmdUniformMatrix._cmdF32A4", "gl.uniformMatrix2fv")
                    ELSE Thrown("TypeError", "property is not a 2x2 matrix")
                [] OTHER -> Thrown("TypeError", "uniform is not a supported matrix")

\* command.prepare(renderObject, renderStage), by the command's class
prepare(cmd, renderObject, stage) ==
    CASE cmd.kind = "CmdSetAttrib"     -> CmdSetAttrib_prepare(cmd, renderObject)
      [] cmd.kind = "CmdDrawElements"  -> CmdDrawElements_prepare(cmd, renderObject)
      [] cmd.kind = "CmdUniformMatrix" -> CmdUniformMatrix_prepare(cmd, renderObject, stage)
      [] OTHER -> Thrown("Error", "use a concrete implementation")

----------------------------------------------------------------------------
(* RenderObject: compiling one scene object for one stage                  *)

\* The three mat4 uniforms shaders/vertex.vert declares.
VertexUniforms ==
    <<[name |-> "u_model_matrix", type |-> "gl.FLOAT_MAT4"],
      [name |-> "u_view_matrix", type |-> "gl.FLOAT_MAT4"],
      [name |-> "u_projection_matrix", type |-> "gl.FLOAT_MAT4"]>>

\* The linked programs: the attributes gl.getActiveAttrib and the uniforms
\* gl.getActiveUniform report, by index.  shaders/vertex.vert declares
\* a_position and a_color; a program that does not use a_color reports
\* a_position alone.
Programs ==
    {[name |-> "vertex.vert",
      attribs |-> <<[name |-> "a_position", type |-> "gl.FLOAT_VEC4"],
                    [name |-> "a_color", type |-> "gl.FLOAT_VEC4"]>>,
      uniforms |-> VertexUniforms],
     [name |-> "plain.vert",
      attribs |-> <<[name |-> "a_position", type |-> "gl.FLOAT_VEC4"]>>,
      uniforms |-> VertexUniforms]}

\* RenderObject._determineUniforms: the loop from index on.
RECURSIVE _determineUniformsFrom(_, _, _)
_determineUniformsFrom(program, index, uniforms) ==
    IF index > Len(program.uniforms) THEN uniforms
    ELSE LET active == program.uniforms[index]
         IN  _determineUniformsFrom(program, index + 1,
                 MapSet(uniforms, active.name,
                        [location |-> index - 1, type |-> active.type]))

_determineUniforms(program) == _determineUniformsFrom(program, 1, EmptyMap)

\* RenderObject._determineAttribs: the loop from index on.
RECURSIVE _determineAttribsFrom(_, _, _)
_determineAttribsFrom(program, index, attribs) ==
    IF index > Len(program.attribs) THEN Returned(attribs)
    ELSE LET active == program.attribs[index]
             size == _getGLTypeSize(active.type)
         IN  IF size.threw THEN size
             ELSE _determineAttribsFrom(program, index + 1,
                      MapSet(attribs, active.name,
                             [location |-> index - 1,
                              type |-> active.type,
                              size |-> size.value]))

_determineAttribs(program) == _determineAttribsFrom(program, 1, EmptyMap)

\* Set.prototype.add on a Set kept in insertion order.
SetAdd(set, x) ==
    IF \E i \in 1..Len(set) : set[i] = x THEN set ELSE Append(set, x)

\* The turn without the test for an active attribute.
UsedAttribBuffersStepAnyAttrib(command, attribs, usedBuffers) ==
    IF command.kind # "CmdSetAttrib" THEN usedBuffers
    ELSE SetAdd(usedBuffers, command.bufferName)

\* One turn of the loop of RenderObject._determineUsedAttribBuffers.
UsedAttribBuffersStep(command, attribs, usedBuffers) ==
    IF command.kind # "CmdSetAttrib" THEN usedBuffers
    ELSE IF command.attribName \notin DOMAIN attribs THEN usedBuffers
    ELSE SetAdd(usedBuffers, command.bufferName)

\* RenderObject._determineUsedAttribBuffers: the loop from command i on.
RECURSIVE _determineUsedAttribBuffersFrom(_, _, _, _)
_determineUsedAttribBuffersFrom(commands, attribs, i, usedBuffers) ==
    IF i > Len(commands) THEN usedBuffers
    ELSE _determineUsedAttribBuffersFrom(commands, attribs, i + 1,
            UsedAttribBuffersStep(commands[i], attribs, usedBuffers))

_determineUsedAttribBuffers(commands, attribs) ==
    _determineUsedAttribBuffersFrom(commands, attribs, 1, <<>>)

\* RenderObject._determineUsedElementBuffers: the loop from command i on.
RECURSIVE _determineUsedElementBuffersFrom(_, _, _)
_determineUsedElementBuffersFrom(commands, i, usedBuffers) ==
    IF i > Len(commands) THEN usedBuffers
    ELSE _determineUsedElementBuffersFrom(commands, i + 1,
            IF commands[i].kind # "CmdDrawElements" THEN usedBuffers
            ELSE SetAdd(usedBuffers, commands[i].bufferName))

\* No element buffer taken as used.
_determineUsedElementBuffersNone(commands) == <<>>

_determineUsedElementBuffers(commands) ==
    _determineUsedElementBuffersFrom(commands, 1, <<>>)

\* The body shared by _allocateAttribBuffers and _allocateElementBuffers:
\* for each key in the Set's order, destructure arrays.get(key) (a TypeError
\* when the key is absent), create and fill a buffer, record its specs.
\* gl is the sequence of buffer uploads made so far; a WebGLBuffer is
\* written as the number of its createBuffer call.
RECURSIVE AllocateFrom(_, _, _, _, _, _)
AllocateFrom(target, keys, arrays, i, buffers, gl) ==
    IF i > Len(keys) THEN [result |-> Returned(buffers), gl |-> gl]
    ELSE IF keys[i] \notin DOMAIN arrays
    THEN [result |-> Thrown("TypeError", "cannot destructure undefined"),
          gl |-> gl]
    ELSE LET data == arrays[keys[i]]
             buffer == Len(gl) + 1
             specs == _getBufferSpecs(data)
             gl1 == Append(gl, [call |-> "bufferData", target |-> target,
                                key |-> keys[i], buffer |-> buffer])
         IN  IF specs.threw THEN [result |-> specs, gl |-> gl1]
             ELSE AllocateFrom(target, keys, arrays, i + 1,
                      MapSet(buffers, keys[i],
                             [buffer |-> buffer,
                              byteSize |-> specs.value.byteSize,
                              type |-> specs.value.type,
                              length |-> data.length]),
                      gl1)

_allocateAttribBuffers(gl, keys, attribArrays) ==
    AllocateFrom("gl.ARRAY_BUFFER", keys, attribArrays, 1, EmptyMap, gl)

_allocateElementBuffers(gl, keys, elementArrays) ==
    AllocateFrom("gl.ELEMENT_ARRAY_BUFFER", keys, elementArrays, 1, EmptyMap, gl)

\* The command list taken whole, without the filter.
RelevantCommandsUnfiltered(renderCommands, inclusionFlags) ==
    [i \in 1..Len(renderCommands) |-> i]

\* The commands of a scene object that pass the stage's flags, as their
\* positions in the authored list, in the list's order (Array.filter).
RelevantCommands(renderCommands, inclusionFlags) ==
    LET Passes(i) == BitAnd(renderCommands[i].inclusionFlags, inclusionFlags) # 0
    IN  SelectSeq([i \in 1..Len(renderCommands) |-> i], Passes)

\* unshift in place of push: the closures put in front.
PushClosuresFront(renderObject, closures, at) ==
    [renderObject EXCEPT
        !.preparedCommands = closures \o @,
        !.origins = [k \in 1..Len(closures) |-> at] \o @]

\* preparedCommands.push(...closures) for a command at authored position at;
\* origins remembers, for every closure, the position of its command.
PushClosures(renderObject, closures, at) ==
    [renderObject EXCEPT
        !.preparedCommands = @ \o closures,
        !.origins = @ \o [k \in 1..Len(closures) |-> at]]

\* The constructor's last loop, from the i-th relevant command on.
RECURSIVE PrepareFrom(_, _, _, _, _)
PrepareFrom(renderCommands, relevant, i, renderObject, stage) ==
    IF i > Len(relevant) THEN Returned(renderObject)
    ELSE LET closures == prepare(renderCommands[relevant[i]], renderObject, stage)
         IN  IF closures.threw THEN closures
             ELSE PrepareFrom(renderCommands, relevant, i + 1,
                      PushClosures(renderObject, closures.value, relevant[i]),
                      stage)

PrepareCommands(renderCommands, relevant, renderObject, stage) ==
    PrepareFrom(renderCommands, relevant, 1, renderObject, stage)

\* new RenderObject(sceneObject, gl, renderStage, {inclusionFlags, ...}):
\* the RenderObject or the exception, and the buffer uploads made.
NewRenderObject(so, program, inclusionFlags, stage) ==
    LET attribs == _determineAttribs(program)
        relevant == RelevantCommands(so.renderCommands, inclusionFlags)
        relevantCommands == [i \in 1..Len(relevant) |-> so.renderCommands[relevant[i]]]
    IN  IF attribs.threw THEN [result |-> attribs, gl |-> <<>>]
        ELSE
        LET usedAttribBuffers ==
                _determineUsedAttribBuffers(relevantCommands, attribs.value)
            usedElementBuffers == _determineUsedElementBuffers(relevantCommands)
            a == _allocateAttribBuffers(<<>>, usedAttribBuffers, so.attribArrays)
        IN  IF a.result.threw THEN a
            ELSE
            LET e == _allocateElementBuffers(a.gl, usedElementBuffers, so.elementArrays)
            IN  IF e.result.threw THEN e
                ELSE [result |->
                          PrepareCommands(so.renderCommands, relevant,
                              [sceneObject |-> so,
                               program |-> program.name,
                               uniforms |-> _determineUniforms(program),
                               attribs |-> attribs.value,
                               attribBuffers |-> a.result.value,
                               elementBuffers |-> e.result.value,
                               preparedCommands |-> <<>>,
                               origins |-> <<>>],
                              stage),
                      gl |-> e.gl]

\* No stage constructed yet.
NoStage == [state |-> "none"]

\* The properties of a RenderStage that readers look up, as the constructor
\* has set them when it compiles the scene: the view it was given and the
\* Mat4 _initPerspective installed.  id tells the stage from the others.
StageObject(id, view) ==
    [id |-> id, view |-> view, projection |-> Mat4Value(<<"projection", 0>>)]

\* The loop over the scene leaving out an object whose RenderObject could
\* not be constructed, and going on with the next.
RECURSIVE StageObjectsSkippingFailed(_, _, _, _, _, _, _)
StageObjectsSkippingFailed(scene, program, inclusionFlags, i, renderObjects, gl, stage) ==
    IF i > Len(scene)
    THEN [state |-> "constructed", inclusionFlags |-> inclusionFlags,
          program |-> program, renderObjects |-> renderObjects, gl |-> gl]
    ELSE IF BitAnd(scene[i].inclusionFlags, inclusionFlags) = 0
    THEN StageObjectsSkippingFailed(scene, program, inclusionFlags, i + 1,
                                    renderObjects, gl, stage)
    ELSE LET ro == NewRenderObject(scene[i], program, inclusionFlags, stage)
         IN  IF ro.result.threw
             THEN StageObjectsSkippingFailed(scene, program, inclusionFlags, i + 1,
                                             renderObjects, gl \o ro.gl, stage)
             ELSE StageObjectsSkippingFailed(scene, program, inclusionFlags, i + 1,
                      Append(renderObjects, ro.result.value), gl \o ro.gl, stage)

\* The RenderStage constructor's loop over the scene, from object i on.
RECURSIVE StageObjectsFrom(_, _, _, _, _, _, _)
StageObjectsFrom(scene, program, inclusionFlags, i, renderObjects, gl, stage) ==
    IF i > Len(scene)
    THEN [state |-> "constructed", inclusionFlags |-> inclusionFlags,
          program |-> program, renderObjects |-> renderObjects, gl |-> gl]
    ELSE IF BitAnd(scene[i].inclusionFlags, inclusionFlags) = 0
    THEN StageObjectsFrom(scene, program, inclusionFlags, i + 1, renderObjects,
                          gl, stage)
    ELSE LET ro == NewRenderObject(scene[i], program, inclusionFlags, stage)
         IN  IF ro.result.threw
             THEN [state |-> "threw", inclusionFlags |-> inclusionFlags,
                   program |-> program, error |-> ro.result, gl |-> gl \o ro.gl]
             ELSE StageObjectsFrom(scene, program, inclusionFlags, i + 1,
                      Append(renderObjects, ro.result.value), gl \o ro.gl, stage)

\* new RenderStage(gl, scene, {inclusionFlags, vertexShaderUrl, ...}) over the
\* scene that holds sceneObject.
NewRenderStage(inclusionFlags, program) ==
    /\ renderStage = NoStage
    /\ renderStage' = StageObjectsFrom(<<sceneObject>>, program, inclusionFlags,
                                       1, <<>>, <<>>, StageObject(1, Identity))
    /\ UNCHANGED <<sceneObject, stageVars, callVars, contextVars, shaderVars, loopVars>>

\* The scene object's typed arrays: 4 vertices of 3 + 3 floats under "main",
\* 6 indices of 2 triangles under "main".
MainAttribArrays == [k \in {"main"} |-> [type |-> "Float32Array", length |-> 24]]

MainElementArrays == [k \in {"main"} |-> [type |-> "Uint8Array", length |-> 6]]

\* The longest command list of a scene object built from ListedCommands.
MaxCmds == 3

\* The longest command list of a scene object built from VariedCommands.
MaxVaried == 1

AttribNames == {"a_position", "a_color"}

\* "nokey" is a key of neither map of the scene object.
BufferNames == {"main", "nokey"}

\* renderInclusion flags given to commands and scene objects, and to stages.
CommandFlags == {1, AllFlags}

StageFlags == {2, AllFlags}

\* The values RESULTS of constructor calls that did not throw.
Constructed(results) == {r.value : r \in {x \in results : ~x.threw}}

\* The commands of the demo's kind: interleaved position and colour in
\* "main", drawn as triangles.
ListedCommands ==
    Constructed(
        {NewCmdSetAttrib(a, "main", 3, 6, o, f) :
            a \in AttribNames, o \in {0, 3}, f \in CommandFlags}
        \cup
        {NewCmdDrawElements("main", 1, c, 0, f) :
            c \in {0, Infinity}, f \in CommandFlags})

\* Commands over a wider range of arguments, past the ends of the buffers.
VariedCommands ==
    Constructed(
        {NewCmdSetAttrib(a, b, s, st, o, AllFlags) :
            a \in AttribNames, b \in BufferNames, s \in {0, 3},
            st \in {6, 64}, o \in {0, 22, 30}}
        \cup
        {NewCmdDrawElements(b, 1, c, o, AllFlags) :
            b \in BufferNames, c \in {0, 7, Infinity}, o \in {0, 7}})

SeqsUpTo(S, n) == UNION {[1..k -> S] : k \in 0..n}

\* new SceneObject(renderCommands, attribData, elementIndices, {inclusionFlags})
SceneObjects ==
    {[renderCommands |-> cmds,
      attribArrays |-> MainAttribArrays,
      elementArrays |-> MainElementArrays,
      inclusionFlags |-> f] :
        cmds \in SeqsUpTo(ListedCommands, MaxCmds) \cup SeqsUpTo(VariedCommands, MaxVaried),
        f \in CommandFlags}

\* new SceneObject(): no commands, no arrays.
EmptySceneObject ==
    [renderCommands |-> <<>>, attribArrays |-> EmptyMap,
     elementArrays |-> EmptyMap, inclusionFlags |-> AllFlags]

CompileInit ==
    /\ sceneObject \in SceneObjects
    /\ renderStage = NoStage

CompileIdle ==
    /\ sceneObject = EmptySceneObject
    /\ renderStage = NoStage

CompileNext == \E f \in StageFlags, p \in Programs : NewRenderStage(f, p)

----------------------------------------------------------------------------
(* Direct calls                                                            *)

\* No call made.
CallIdle ==
    /\ call = [fn |-> "none"]
    /\ outcome = <<>>

\* The longest element array a direct call of prepare is given.
MaxLen == 3

\* A RenderObject that holds nothing but the element buffer allocated for
\* elementArray under the key "main".
ElementsOnly(elementArray) ==
    [program |-> "vertex.vert",
     attribs |-> EmptyMap,
     attribBuffers |-> EmptyMap,
     elementBuffers |->
        _allocateElementBuffers(<<>>, <<"main">>,
                                [k \in {"main"} |-> elementArray]).result.value,
     preparedCommands |-> <<>>,
     origins |-> <<>>]

\* The calls command.prepare(renderObject, renderStage) of a CmdDrawElements
\* on "main", for index arrays of 1..MaxLen elements of either index type.
DrawCalls ==
    {[fn |-> "CmdDrawElements.prepare", cmd |-> c, elementArray |-> e] :
        c \in Constructed({NewCmdDrawElements("main", m, n, o, AllFlags) :
                m \in {1, 3}, n \in (0..(MaxLen + 1)) \cup {Infinity},
                o \in 0..(MaxLen + 1)}),
        e \in {[type |-> t, length |-> l] :
                t \in {"Uint8Array", "Uint16Array"}, l \in 1..MaxLen}}

DrawInit ==
    /\ call \in DrawCalls
    /\ outcome = <<>>

CallDrawPrepare ==
    /\ call.fn = "CmdDrawElements.prepare"
    /\ outcome = <<>>
    /\ outcome' = <<CmdDrawElements_prepare(call.cmd, ElementsOnly(call.elementArray))>>
    /\ UNCHANGED <<call, stageVars, compileVars, contextVars, shaderVars, loopVars>>

DrawNext == CallDrawPrepare

\* 2 to the power k.
RECURSIVE Pow2(_)
Pow2(k) == IF k = 0 THEN 1 ELSE 2 * Pow2(k - 1)

\* x < y for two fractions, the infinities included.
Less(x, y) == x[1] * y[2] < y[1] * x[2]

\* Math.max(x, y) and Math.min(x, y)
MathMax(x, y) == IF Less(x, y) THEN y ELSE x

MathMin(x, y) == IF Less(y, x) THEN y ELSE x

\* Math.trunc(x), as an integer.
Trunc(x) == IF x[1] < 0 THEN -((-x[1]) \div x[2]) ELSE x[1] \div x[2]

\* The typed arrays' conversions of a number to an element: ToUint8 and
\* ToUint16 truncate and wrap modulo 2^bits, ToInt8 and ToInt16 wrap into
\* the signed range.
ToUint(bits, x) == Frac(Trunc(x) % Pow2(bits), 1)

ToInt(bits, x) ==
    Frac(((Trunc(x) + Pow2(bits - 1)) % Pow2(bits)) - Pow2(bits - 1), 1)

\* floor(log2(a / d)) for a, d > 0
RECURSIVE ExponentUp(_, _, _)
ExponentUp(a, d, e) == IF d * Pow2(e + 1) <= a THEN ExponentUp(a, d, e + 1) ELSE e

RECURSIVE ExponentDown(_, _, _)
ExponentDown(a, d, k) == IF a * Pow2(k) >= d THEN -k ELSE ExponentDown(a, d, k + 1)

Exponent(a, d) == IF a >= d THEN ExponentUp(a, d, 0) ELSE ExponentDown(a, d, 1)

\* n / d rounded to the nearest integer, ties to even.
RoundHalfEven(n, d) ==
    LET q == n \div d
        r == n % d
    IN  IF 2 * r < d THEN q
        ELSE IF 2 * r > d THEN q + 1
        ELSE IF q % 2 = 0 THEN q ELSE q + 1

\* The Float32Array conversion of a number: the nearest value with a 24-bit
\* significand, ties to even (the normal range; the values stored here are
\* far from the subnormals and from overflow).
ToFloat32(x) ==
    IF x[1] = 0 \/ x[2] = 0 THEN x
    ELSE LET a == Abs(x[1])
             sign == IF x[1] < 0 THEN -1 ELSE 1
             e == Exponent(a, x[2])
         IN  IF e <= 23
             THEN Frac(sign * RoundHalfEven(a * Pow2(23 - e), x[2]), Pow2(23 - e))
             ELSE Frac(sign * RoundHalfEven(a, x[2] * Pow2(e - 23)) * Pow2(e - 23), 1)

\* new Type(data): every element converted.
TypedArray(type, data) ==
    [type |-> type,
     length |-> Len(data),
     data |-> [k \in 1..Len(data) |->
                  CASE type = "Uint8Array"  -> ToUint(8, data[k])
                    [] type = "Int8Array"   -> ToInt(8, data[k])
                    [] type = "Uint16Array" -> ToUint(16, data[k])
                    [] type = "Int16Array"  -> ToInt(16, data[k])
                    [] OTHER                -> ToFloat32(data[k])]]

\* data.reduce(([max, min, isInt], value) => ..., [-Infinity, Infinity, true]),
\* from element k on.
RECURSIVE ReduceMaxMinIsInt(_, _, _)
ReduceMaxMinIsInt(data, k, acc) ==
    IF k > Len(data) THEN acc
    ELSE ReduceMaxMinIsInt(data, k + 1,
             [max |-> MathMax(acc.max, data[k]),
              min |-> MathMin(acc.min, data[k]),
              isInt |-> acc.isInt /\ Frac(Trunc(data[k]), 1) = data[k]])

\* The typed array stored for the statistics r of data, by the five tests.
AttribArrayChosen(r, data) ==
    LET Within(lo, hi) ==
            r.isInt /\ ~Less(r.min, Frac(lo, 1)) /\ ~Less(Frac(hi, 1), r.max)
    IN  IF Within(0, 255) THEN TypedArray("Uint8Array", data)
        ELSE IF Within(-128, 127) THEN TypedArray("Int8Array", data)
        ELSE IF Within(0, 65535) THEN TypedArray("Uint16Array", data)
        ELSE IF Within(-32768, 32767) THEN TypedArray("Int16Array", data)
        ELSE TypedArray("Float32Array", data)

\* SceneObject._initializeAttribArrays: entry.data for one key's data.
_initializeAttribArrays(data) ==
    AttribArrayChosen(
        ReduceMaxMinIsInt(data, 1, [max |-> Frac(-1, 0), min |-> Frac(1, 0),
                                    isInt |-> TRUE]),
        data)

\* indices.reduce((max, index) => Math.max(max, index)), from element k on.
RECURSIVE ReduceMax(_, _, _)
ReduceMax(indices, k, max) ==
    IF k > Len(indices) THEN max
    ELSE ReduceMax(indices, k + 1, MathMax(max, indices[k]))

\* The typed array stored for the largest index.
IndexArrayChosen(max, indices) ==
    IF ~Less(Frac(255, 1), max) THEN TypedArray("Uint8Array", indices)
    ELSE TypedArray("Uint16Array", indices)

\* An _initializeElementArrays whose reduce starts from 0, so that an empty
\* index list is stored as an empty Uint8Array.
_initializeElementArraysFromZero(indices) ==
    Returned(IndexArrayChosen(ReduceMax(indices, 1, Frac(0, 1)), indices))

\* SceneObject._initializeElementArrays: the indices entry for one key.
\* reduce without an initial value throws on an empty array.
_initializeElementArrays(indices) ==
    IF Len(indices) = 0
    THEN Thrown("TypeError", "Reduce of empty array with no initial value")
    ELSE Returned(IndexArrayChosen(ReduceMax(indices, 2, indices[1]), indices))

\* The longest data and index array given to a SceneObject.
MaxData == 2

\* The raw attribute values: the ends of the four integer ranges and their
\* neighbours, 2^24 + 1, one half and one tenth.
RawValues ==
    {Frac(n, 1) : n \in {-32769, -32768, -129, -128, -1, 0, 127, 128, 255, 256,
                         32767, 32768, 65535, 65536, 16777217}}
        \cup {Frac(1, 2), Frac(1, 10)}

\* The raw indices: non-negative integers.
RawIndices == {Frac(n, 1) : n \in {0, 1, 254, 255, 256, 257, 65535, 65536, 70000}}

SequencesUpTo(n, values) == UNION {[1..m -> values] : m \in 0..n}

AttribInit ==
    /\ call \in {[fn |-> "SceneObject._initializeAttribArrays", data |-> data] :
                    data \in SequencesUpTo(MaxData, RawValues)}
    /\ outcome = <<>>

CallInitializeAttribArrays ==
    /\ call.fn = "SceneObject._initializeAttribArrays"
    /\ outcome = <<>>
    /\ outcome' = <<Returned(_initializeAttribArrays(call.data))>>
    /\ UNCHANGED <<call, stageVars, compileVars, contextVars, shaderVars, loopVars>>

AttribNext == CallInitializeAttribArrays

ElementInit ==
    /\ call \in {[fn |-> "SceneObject._initializeElementArrays", indices |-> indices] :
                    indices \in SequencesUpTo(MaxData, RawIndices)}
    /\ outcome = <<>>

CallInitializeElementArrays ==
    /\ call.fn = "SceneObject._initializeElementArrays"
    /\ outcome = <<>>
    /\ outcome' = <<_initializeElementArrays(call.indices)>>
    /\ UNCHANGED <<call, stageVars, compileVars, contextVars, shaderVars, loopVars>>

ElementNext == CallInitializeElementArrays

\* new SceneObject(renderCommands, {main: {data}}, {main: {indices}}): the
\* attribArrays map as _initializeAttribArrays has filled it, and the object
\* constructed or the exception _initializeElementArrays threw after that.
NewSceneObject(data, indices) ==
    [attribArrays |-> MapSet(EmptyMap, "main", _initializeAttribArrays(data)),
     result |-> IF _initializeElementArrays(indices).threw
                THEN _initializeElementArrays(indices)
                ELSE Returned([attribArrays |->
                                  MapSet(EmptyMap, "main", _initializeAttribArrays(data)),
                               elementArrays |->
                                  MapSet(EmptyMap, "main",
                                         _initializeElementArrays(indices).value)])]

\* The longest data list and index list of the descriptors a SceneObject
\* is constructed from.
MaxListed == 1

SceneInit ==
    /\ call \in {[fn |-> "new SceneObject", data |-> data, indices |-> indices] :
                    data \in SequencesUpTo(MaxListed, RawValues),
                    indices \in SequencesUpTo(MaxListed, RawIndices)}
    /\ outcome = <<>>

ConstructSceneObject ==
    /\ call.fn = "new SceneObject"
    /\ outcome = <<>>
    /\ outcome' = <<NewSceneObject(call.data, call.indices)>>
    /\ UNCHANGED <<call, stageVars, compileVars, contextVars, shaderVars, loopVars>>

SceneNext == ConstructSceneObject

\* The sizes, strides, offsets and counts commands are configured with.
ConfiguredSizes == -1..5

ConfiguredStrides == {-1, 0, 6, 63, 64, 127, 128, 255, 256}

ConfiguredOffsets == {-1, 0, 1, 3, 4, 5}

ConfiguredCounts == {-1, 0, 1, 2, Infinity}

\* The types gl.getActiveAttrib reports for a_position.
AttribTypes == {"gl.FLOAT", "gl.FLOAT_VEC2", "gl.FLOAT_VEC3", "gl.FLOAT_VEC4"}

\* A RenderObject of a program whose only attribute, if it is active, is
\* a_position of the given type, with the buffer allocated for attribArray
\* under the key "main".
AttribOnly(active, type, attribArray) ==
    [program |-> "vertex.vert",
     attribs |-> IF active
                 THEN MapSet(EmptyMap, "a_position",
                             [location |-> 0, type |-> type,
                              size |-> _getGLTypeSize(type).value])
                 ELSE EmptyMap,
     attribBuffers |->
        _allocateAttribBuffers(<<>>, <<"main">>,
                               [k \in {"main"} |-> attribArray]).result.value,
     elementBuffers |-> EmptyMap,
     preparedCommands |-> <<>>,
     origins |-> <<>>]

\* The commands to construct and then prepare: a CmdSetAttrib on the
\* attribute buffer "main" of four elements, a CmdDrawElements on the
\* element buffer "main".
ConfigCalls ==
    {[fn |-> "CmdSetAttrib", size |-> size, stride |-> stride, offset |-> offset,
      active |-> active, type |-> type,
      attribArray |-> [type |-> array, length |-> 4]] :
        size \in ConfiguredSizes, stride \in ConfiguredStrides,
        offset \in ConfiguredOffsets, active \in BOOLEAN, type \in AttribTypes,
        array \in {"Uint8Array", "Int16Array", "Float32Array"}}
    \cup
    {[fn |-> "CmdDrawElements", count |-> count, offset |-> offset,
      elementArray |-> [type |-> array, length |-> 4]] :
        count \in ConfiguredCounts, offset \in ConfiguredOffsets,
        array \in {"Uint8Array", "Uint16Array"}}

ConfigInit ==
    /\ call \in ConfigCalls
    /\ outcome = <<>>

\* new CmdSetAttrib('a_position', 'main', {size, stride, offset})
ConstructSetAttrib ==
    /\ call.fn = "CmdSetAttrib"
    /\ outcome = <<>>
    /\ outcome' = <<NewCmdSetAttrib("a_position", "main", call.size, call.stride,
                                    call.offset, AllFlags)>>
    /\ UNCHANGED <<call, stageVars, compileVars, contextVars, shaderVars, loopVars>>

\* prepare of the command constructed.
PrepareSetAttrib ==
    /\ call.fn = "CmdSetAttrib"
    /\ Len(outcome) = 1
    /\ ~outcome[1].threw
    /\ outcome' = Append(outcome,
                         CmdSetAttrib_prepare(outcome[1].value,
                             AttribOnly(call.active, call.type, call.attribArray)))
    /\ UNCHANGED <<call, stageVars, compileVars, contextVars, shaderVars, loopVars>>

\* new CmdDrawElements('main', drawMode.TRIANGLES, {count, offset})
ConstructDrawElements ==
    /\ call.fn = "CmdDrawElements"
    /\ outcome = <<>>
    /\ outcome' = <<NewCmdDrawElements("main", 1, call.count, call.offset, AllFlags)>>
    /\ UNCHANGED <<call, stageVars, compileVars, contextVars, shaderVars, loopVars>>

\* prepare of the command constructed.
PrepareDrawElements ==
    /\ call.fn = "CmdDrawElements"
    /\ Len(outcome) = 1
    /\ ~outcome[1].threw
    /\ outcome' = Append(outcome,
                         CmdDrawElements_prepare(outcome[1].value,
                                                 ElementsOnly(call.elementArray)))
    /\ UNCHANGED <<call, stageVars, compileVars, contextVars, shaderVars, loopVars>>

ConfigNext ==
    \/ ConstructSetAttrib
    \/ PrepareSetAttrib
    \/ ConstructDrawElements
    \/ PrepareDrawElements

\* The property names looked up.
PropertyNames == {"matrix", "view"}

\* An object that has the properties named in has; the value of each says
\* which object it was read from.
ObjectWith(owner, has) == [n \in has |-> <<owner, n>>]

\* A RenderObject: its sceneObject property and the properties in has.
RenderObjectWith(has, so) ==
    [n \in has \cup {"sceneObject"} |->
        IF n = "sceneObject" THEN so ELSE <<"renderObject", n>>]

\* The source values passed: the four of the enum and one outside it.
Sources == 0..4

ReaderCalls ==
    {[fn |-> "getPropertyReader", source |-> s, name |-> n,
      renderObject |-> RenderObjectWith(ro, ObjectWith("sceneObject", so)),
      renderStage |-> ObjectWith("renderStage", st)] :
        s \in Sources, n \in PropertyNames,
        ro \in SUBSET PropertyNames, st \in SUBSET PropertyNames,
        so \in SUBSET PropertyNames}

ReaderInit ==
    /\ call \in ReaderCalls
    /\ outcome = <<>>

CallGetPropertyReader ==
    /\ call.fn = "getPropertyReader"
    /\ outcome = <<>>
    /\ outcome' = <<getPropertyReader(call.source, call.name,
                                      call.renderObject, call.renderStage)>>
    /\ UNCHANGED <<call, stageVars, compileVars, contextVars, shaderVars, loopVars>>

ReaderNext == CallGetPropertyReader

\* The longest Float32Array or Array a matrix property holds: one element
\* more than a 4x4 matrix has.
MaxMatrixLen == 17

\* The types gl.getActiveUniform reports for the uniform: the three matrix
\* types and two that are not matrices.
UniformTypes ==
    {"gl.FLOAT_MAT4", "gl.FLOAT_MAT3", "gl.FLOAT_MAT2", "gl.FLOAT_VEC4", "gl.FLOAT"}

\* The values the bound property holds when prepare samples it.
PropertyValues ==
    {Identity, Undefined}
        \cup {Float32ArrayValue(n, <<"floats", n>>) : n \in 0..MaxMatrixLen}
        \cup {ArrayValue(n, <<"numbers", n>>) : n \in 0..MaxMatrixLen}

\* A RenderObject of a program whose only uniform, if it is active, is
\* u_matrix of the given type, for a scene object whose matrix is value.
UniformOnly(active, type, value) ==
    [program |-> "vertex.vert",
     uniforms |-> IF active
                  THEN MapSet(EmptyMap, "u_matrix", [location |-> 0, type |-> type])
                  ELSE EmptyMap,
     sceneObject |-> [matrix |-> value]]

UniformCalls ==
    {[fn |-> "CmdUniformMatrix.prepare",
      cmd |-> NewCmdUniformMatrix("u_matrix", "matrix", SCENE_OBJECT,
                                  transpose, AllFlags).value,
      active |-> active, type |-> type, value |-> value] :
        transpose \in BOOLEAN, active \in BOOLEAN,
        type \in UniformTypes, value \in PropertyValues}

UniformInit ==
    /\ call \in UniformCalls
    /\ outcome = <<>>

CallUniformPrepare ==
    /\ call.fn = "CmdUniformMatrix.prepare"
    /\ outcome = <<>>
    /\ outcome' = <<CmdUniformMatrix_prepare(
                        call.cmd, UniformOnly(call.active, call.type, call.value),
                        StageObject(1, Identity))>>
    /\ UNCHANGED <<call, stageVars, compileVars, contextVars, shaderVars, loopVars>>

\* prepare called on commands over every source, 4 being none of the
\* enumeration's, over the property names and one no object has, for a
\* program that has the uniform or has not.
ResolveCalls ==
    {[fn |-> "CmdUniformMatrix.prepare",
      cmd |-> NewCmdUniformMatrix("u_matrix", name, source, transpose, AllFlags).value,
      active |-> active, type |-> type, value |-> value] :
        name \in PropertyNames \cup {"missing"}, source \in Sources,
        transpose \in BOOLEAN, active \in BOOLEAN,
        type \in {"gl.FLOAT_MAT4", "gl.FLOAT"},
        value \in {Identity, Undefined}}

ResolveInit ==
    /\ call \in ResolveCalls
    /\ outcome = <<>>

UniformNext == CallUniformPrepare

----------------------------------------------------------------------------
(* RenderContext: canvases, aspect pair, render loop                       *)

\* 1.0
Unit == Frac(1, 1)

\* aspectX with the quotient upside down.
AspectXInverted(width, height) == IF width > height THEN Frac(width, height) ELSE Unit

\* The aspect pair _adjustCanvas derives from the backing size.
AspectX(width, height) == IF width > height THEN Frac(height, width) ELSE Unit

AspectY(width, height) == IF width < height THEN Frac(width, height) ELSE Unit

\* RenderContext._adjustCanvas(force) of the context ctx on its canvas.
\* scrollWidth and scrollHeight are integers, which Math.ceil returns as
\* they are.
_adjustCanvas(ctx, canvas, force) ==
    LET width == canvas.scrollWidth
        height == canvas.scrollHeight
    IN  IF ~force /\ width = canvas.width /\ height = canvas.height
        THEN [changed |-> FALSE, ctx |-> ctx, canvas |-> canvas]
        ELSE [changed |-> TRUE,
              ctx |-> [ctx EXCEPT !.aspectX = AspectX(width, height),
                                  !.aspectY = AspectY(width, height)],
              canvas |-> [canvas EXCEPT !.width = width, !.height = height]]

\* The identity of the s-th stage of the c-th context, and of the i-th
\* object of the scene.
StageId(c, s) == [kind |-> "renderStage", at |-> <<c, s>>]

SceneObjectId(i) == [kind |-> "sceneObject", at |-> i]

\* new RenderStage(gl, scene, properties) as a RenderContext keeps it: the
\* properties readers look up and the compiled objects.
StageKept(stage, inclusionFlags, compiled) ==
    IF compiled.state = "threw" THEN compiled.error
    ELSE Returned([id |-> stage.id,
                   view |-> stage.view,
                   projection |-> stage.projection,
                   inclusionFlags |-> inclusionFlags,
                   renderObjects |-> compiled.renderObjects])

NewContextStage(id, sc, properties) ==
    StageKept(StageObject(id, properties.view), properties.inclusionFlags,
              StageObjectsFrom(sc, properties.program, properties.inclusionFlags,
                               1, <<>>, <<>>, StageObject(id, properties.view)))

\* new RenderContext(gl, scene, stages) on the canvas numbered k, as the
\* c-th context: the aspect pair starts at 1.0 / 1.0, _adjustCanvas(true)
\* sets it, then the stages are constructed in list order.
ContextKept(adj, built) ==
    [canvas |-> adj.canvas,
     ctx |-> [adj.ctx EXCEPT !.renderStages =
                  IF \A s \in 1..Len(built) : ~built[s].threw
                  THEN [s \in 1..Len(built) |-> built[s].value]
                  ELSE <<>>],
     ok |-> \A s \in 1..Len(built) : ~built[s].threw,
     error |-> IF \A s \in 1..Len(built) : ~built[s].threw THEN <<>>
               ELSE <<built[CHOOSE s \in 1..Len(built) :
                                /\ built[s].threw
                                /\ \A t \in 1..(s - 1) : ~built[t].threw]>>]

NewRenderContext(c, k, canvas, sc, stages) ==
    ContextKept(_adjustCanvas([canvas |-> k, aspectX |-> Unit, aspectY |-> Unit,
                               renderStages |-> <<>>], canvas, TRUE),
                [s \in 1..Len(stages) |->
                    NewContextStage(StageId(c, s), sc, stages[s])])

\* buildRenderContexts(scene, contextDescriptions), from description c on.
\* A description names its canvas (the one its selector matches) and lists
\* the properties of its stages.
RECURSIVE buildRenderContextsFrom(_, _, _, _, _)
RECURSIVE ContextPushed(_, _, _, _, _, _)
buildRenderContextsFrom(sc, contextDescriptions, c, cvs, ctxs) ==
    IF c > Len(contextDescriptions)
    THEN [canvases |-> cvs, renderContexts |-> ctxs, ok |-> TRUE, error |-> <<>>]
    ELSE ContextPushed(sc, contextDescriptions, c, cvs, ctxs,
             NewRenderContext(c, contextDescriptions[c].canvas,
                              cvs[contextDescriptions[c].canvas], sc,
                              contextDescriptions[c].stages))

\* renderContexts.push(new RenderContext(...)), and the rest of the loop.
ContextPushed(sc, contextDescriptions, c, cvs, ctxs, new) ==
    IF ~new.ok
    THEN [canvases |-> [cvs EXCEPT ![contextDescriptions[c].canvas] = new.canvas],
          renderContexts |-> ctxs, ok |-> FALSE, error |-> new.error]
    ELSE buildRenderContextsFrom(sc, contextDescriptions, c + 1,
             [cvs EXCEPT ![contextDescriptions[c].canvas] = new.canvas],
             Append(ctxs, new.ctx))

buildRenderContexts(sc, contextDescriptions, cvs) ==
    buildRenderContextsFrom(sc, contextDescriptions, 1, cvs, <<>>)

\* What a reader returns when a closure calls it: the property the bound
\* object holds now.  A scene object is looked up in the scene, a stage in
\* its context; a RenderObject does not change once it is constructed.
Deref(reader, sc, ctxs) ==
    LET obj == reader.obj
    IN  IF "id" \notin DOMAIN obj THEN Read(reader)
        ELSE IF obj.id.kind = "sceneObject" THEN sc[obj.id.at][reader.name]
        ELSE ctxs[obj.id.at[1]].renderStages[obj.id.at[2]][reader.name]

\* gl.uniformMatrix{2,3,4}fv take a Float32Array or a sequence of numbers;
\* any other value is a TypeError of the binding.
IsFloat32List(value) == value.class \in {"Float32Array", "Mat4", "Array"}

GLCall(op, args) == [op |-> op, args |-> args]

\* A closure of the uniform commands with the value sampled once, when it
\* was prepared.
RunClosureSampled(closure, sc, ctxs) ==
    CASE closure.fn = "CmdSetAttrib._cmd" ->
            Returned(<<GLCall("gl.enableVertexAttribArray", <<closure.location>>),
                       GLCall("gl.bindBuffer", <<"gl.ARRAY_BUFFER", closure.buffer>>),
                       GLCall("gl.vertexAttribPointer",
                              <<closure.location, closure.size, closure.type,
                                closure.normalized, closure.stride, closure.offset>>)>>)
      [] closure.fn = "CmdDrawElements._cmd" ->
            Returned(<<GLCall("gl.bindBuffer", <<"gl.ELEMENT_ARRAY_BUFFER", closure.buffer>>),
                       GLCall("gl.drawElements",
                              <<closure.mode, closure.count, closure.type, closure.offset>>)>>)
      [] OTHER ->
            LET value == Read(closure.reader)
            IN  IF IsFloat32List(value)
                THEN Returned(<<GLCall(closure.upload,
                                       <<closure.location, closure.transpose, value>>)>>)
                ELSE Thrown("TypeError", "value is not a Float32Array or sequence")

\* command(gl) for a prepared closure: the gl calls it makes, or what it
\* throws.
RunClosure(closure, sc, ctxs) ==
    CASE closure.fn = "CmdSetAttrib._cmd" ->
            Returned(<<GLCall("gl.enableVertexAttribArray", <<closure.location>>),
                       GLCall("gl.bindBuffer", <<"gl.ARRAY_BUFFER", closure.buffer>>),
                       GLCall("gl.vertexAttribPointer",
                              <<closure.location, closure.size, closure.type,
                                closure.normalized, closure.stride, closure.offset>>)>>)
      [] closure.fn = "CmdDrawElements._cmd" ->
            Returned(<<GLCall("gl.bindBuffer", <<"gl.ELEMENT_ARRAY_BUFFER", closure.buffer>>),
                       GLCall("gl.drawElements",
                              <<closure.mode, closure.count, closure.type, closure.offset>>)>>)
      [] OTHER ->
            LET value == Deref(closure.reader, sc, ctxs)
            IN  IF IsFloat32List(value)
                THEN Returned(<<GLCall(closure.upload,
                                       <<closure.location, closure.transpose, value>>)>>)
                ELSE Thrown("TypeError", "value is not a Float32Array or sequence")

\* The calls of one stage and object, marked with the context, the stage
\* and the scene object they were made for (0: for none).
Marked(calls, c, s, o) ==
    [k \in 1..Len(calls) |->
        [op |-> calls[k].op, args |-> calls[k].args,
         context |-> c, stage |-> s, object |-> o]]

\* The inner loop of RenderStage.render, from closure k on: the calls made,
\* and the exception if a closure threw.
RECURSIVE RunClosuresFrom(_, _, _, _, _)
RunClosuresFrom(closures, k, calls, sc, ctxs) ==
    IF k > Len(closures) THEN [calls |-> calls, error |-> <<>>]
    ELSE LET r == RunClosure(closures[k], sc, ctxs)
         IN  IF r.threw THEN [calls |-> calls, error |-> <<r>>]
             ELSE RunClosuresFrom(closures, k + 1, calls \o r.value, sc, ctxs)

\* The outer loop of RenderStage.render taking the compiled objects last
\* to first.
RECURSIVE RenderObjectsBackwardsFrom(_, _, _, _, _, _, _)
RenderObjectsBackwardsFrom(stage, c, s, n, calls, sc, ctxs) ==
    LET m == Len(stage.renderObjects) + 1 - n
    IN  IF n > Len(stage.renderObjects) THEN [calls |-> calls, error |-> <<>>]
        ELSE LET obj == stage.renderObjects[m]
                 o == obj.sceneObject.id.at
                 use == <<GLCall("gl.useProgram", <<obj.program>>)>>
                 run == RunClosuresFrom(obj.preparedCommands, 1, <<>>, sc, ctxs)
                 made == calls \o Marked(use \o run.calls, c, s, o)
             IN  IF run.error # <<>> THEN [calls |-> made, error |-> run.error]
                 ELSE RenderObjectsBackwardsFrom(stage, c, s, n + 1, made, sc, ctxs)

\* The outer loop of RenderStage.render, from compiled object n on.
RECURSIVE RenderObjectsFrom(_, _, _, _, _, _, _)
RenderObjectsFrom(stage, c, s, n, calls, sc, ctxs) ==
    IF n > Len(stage.renderObjects) THEN [calls |-> calls, error |-> <<>>]
    ELSE LET obj == stage.renderObjects[n]
             o == obj.sceneObject.id.at
             use == <<GLCall("gl.useProgram", <<obj.program>>)>>
             run == RunClosuresFrom(obj.preparedCommands, 1, <<>>, sc, ctxs)
             made == calls \o Marked(use \o run.calls, c, s, o)
         IN  IF run.error # <<>> THEN [calls |-> made, error |-> run.error]
             ELSE RenderObjectsFrom(stage, c, s, n + 1, made, sc, ctxs)

\* RenderStage.render(aspectX, aspectY) of the s-th stage of context c, the
\* part that talks to gl.  The first entry records the invocation itself
\* and the scroll size the canvas had when the context's render() began.
RenderStage_render(c, s, aspectX, aspectY, surface, sc, ctxs) ==
    LET stage == ctxs[c].renderStages[s]
        head == <<GLCall("stage.render", <<aspectX, aspectY, surface>>),
                  GLCall("gl.viewport", <<>>),
                  GLCall("gl.clearColor", <<>>),
                  GLCall("gl.clear", <<"gl.COLOR_BUFFER_BIT | gl.DEPTH_BUFFER_BIT">>),
                  GLCall("gl.enable", <<"gl.CULL_FACE">>),
                  GLCall("gl.enable", <<"gl.DEPTH_TEST">>)>>
    IN  RenderObjectsFrom(stage, c, s, 1, Marked(head, c, s, 0), sc, ctxs)

\* The loop of RenderContext.render over the stages, from stage s on.
RECURSIVE RenderStagesFrom(_, _, _, _, _, _)
RenderStagesFrom(c, s, surface, calls, sc, ctxs) ==
    IF s > Len(ctxs[c].renderStages) THEN [calls |-> calls, error |-> <<>>]
    ELSE LET r == RenderStage_render(c, s, ctxs[c].aspectX, ctxs[c].aspectY,
                                     surface, sc, ctxs)
         IN  IF r.error # <<>> THEN [calls |-> calls \o r.calls, error |-> r.error]
             ELSE RenderStagesFrom(c, s + 1, surface, calls \o r.calls, sc, ctxs)

\* RenderContext.render() of context c: the canvases and contexts after it,
\* the calls made and the exception that left it, if any.
RenderContext_render(c, cvs, sc, ctxs) ==
    LET k == ctxs[c].canvas
        surface == <<cvs[k].scrollWidth, cvs[k].scrollHeight>>
        adj == _adjustCanvas(ctxs[c], cvs[k], FALSE)
        ctxs2 == [ctxs EXCEPT ![c] = adj.ctx]
        r == RenderStagesFrom(c, 1, surface, <<>>, sc, ctxs2)
    IN  [canvases |-> [cvs EXCEPT ![k] = adj.canvas],
         renderContexts |-> ctxs2,
         calls |-> r.calls,
         error |-> r.error]

\* The try block of renderAnimationCallback, from context c on: the loop
\* over the contexts is inside the try, so the first exception ends it.
RECURSIVE RenderAllFrom(_, _, _, _, _)
RenderAllFrom(c, cvs, sc, ctxs, calls) ==
    IF c > Len(ctxs)
    THEN [canvases |-> cvs, renderContexts |-> ctxs, calls |-> calls, error |-> <<>>]
    ELSE LET r == RenderContext_render(c, cvs, sc, ctxs)
         IN  IF r.error # <<>>
             THEN [canvases |-> r.canvases, renderContexts |-> r.renderContexts,
                   calls |-> calls \o r.calls, error |-> r.error]
             ELSE RenderAllFrom(c + 1, r.canvases, sc, r.renderContexts,
                                calls \o r.calls)

\* Mat4.mul(Mat4.rotationX(now * 0.006), Mat4.rotationY(now * 0.007))
Rot(now) == Mat4Value(<<"rot", now>>)

\* The layout changes the size of canvas k.
Resize(k, width, height) ==
    /\ <<canvases[k].scrollWidth, canvases[k].scrollHeight>> # <<width, height>>
    /\ canvases' = [canvases EXCEPT ![k].scrollWidth = width,
                                    ![k].scrollHeight = height]
    /\ UNCHANGED <<theScene, renderContexts, glCalls, console>>
    /\ UNCHANGED <<stageVars, compileVars, callVars, shaderVars, loopVars>>

\* renderContexts[c].render(), called on its own.
ContextRender(c) ==
    LET r == RenderContext_render(c, canvases, theScene, renderContexts)
    IN  /\ canvases' = r.canvases
        /\ renderContexts' = r.renderContexts
        /\ glCalls' = r.calls
        /\ UNCHANGED <<theScene, console>>
        /\ UNCHANGED <<stageVars, compileVars, callVars, shaderVars, loopVars>>

\* The owner of a stage assigns its view property.
SetView(c, s, view) ==
    /\ renderContexts[c].renderStages[s].view # view
    /\ renderContexts' = [renderContexts EXCEPT ![c].renderStages[s].view = view]
    /\ UNCHANGED <<canvases, theScene, glCalls, console>>
    /\ UNCHANGED <<stageVars, compileVars, callVars, shaderVars, loopVars>>

\* requestAnimationFrame(callback): the callback joins the list the browser
\* runs at the next frame.
requestAnimationFrame(callbacks, callback) == Append(callbacks, callback)

\* A callback that requests the next frame as the last statement of its
\* try block, after the loop over the contexts.
RequestedInsideTry(r, callbacks) ==
    IF r.error # <<>> THEN callbacks
    ELSE requestAnimationFrame(callbacks, "renderAnimationCallback")

\* The end of renderAnimationCallback: after the try statement, whatever
\* the render calls did, the callback requests the next frame.
RequestedAfter(r, callbacks) ==
    requestAnimationFrame(callbacks, "renderAnimationCallback")

\* No animation loop: nothing requested.
LoopIdle ==
    /\ then = 0
    /\ animationFrameCallbacks = <<>>

\* startAnimationLoop(scene, renderContexts) has been called.
LoopStarted ==
    /\ then = 0
    /\ animationFrameCallbacks = <<"renderAnimationCallback">>

\* waitReady is fulfilled and startAnimationLoop(scene, renderContexts) is
\* called, once.
startAnimationLoop ==
    /\ then = 0
    /\ animationFrameCallbacks = <<>>
    /\ animationFrameCallbacks' =
          requestAnimationFrame(animationFrameCallbacks, "renderAnimationCallback")
    /\ UNCHANGED then
    /\ UNCHANGED <<stageVars, compileVars, callVars, contextVars, shaderVars>>

\* for (const obj of scene) { obj.matrix = rot; }
Rotated(sc, rot) == [i \in 1..Len(sc) |-> [sc[i] EXCEPT !.matrix = rot]]

\* What a frame leaves once the try statement is done with the result r:
\* the canvases and contexts, the calls made, what was caught and logged,
\* the frame's time stamp, and the callbacks the browser has for the next
\* frame, the list it ran having been emptied before.
FrameRendered(now, r) ==
    /\ canvases' = r.canvases
    /\ renderContexts' = r.renderContexts
    /\ glCalls' = r.calls
    /\ console' = r.error
    /\ then' = now
    /\ animationFrameCallbacks' = RequestedAfter(r, <<>>)

\* renderAnimationCallback(now): every scene object gets the new rotation,
\* then the contexts are rendered inside one try; what is caught goes to
\* console.error.  glCalls and console hold what this frame did.
renderAnimationCallback(now) ==
    /\ animationFrameCallbacks # <<>>
    /\ now # then
    /\ FrameRendered(now, RenderAllFrom(1, canvases, Rotated(theScene, Rot(now)),
                                        renderContexts, <<>>))
    /\ theScene' = Rotated(theScene, Rot(now))
    /\ UNCHANGED <<stageVars, compileVars, callVars, shaderVars>>

\* The largest scroll width and height of the canvas whose aspect pair is
\* followed through every size.
MaxSize == 3

\* The largest time stamp an animation frame is given.
MaxNow == 2

\* The scroll sizes given to the canvases that several contexts render to.
CanvasSizes == {<<2, 1>>, <<1, 2>>, <<2, 2>>}

\* What a stage's view is set to: a matrix, or nothing.
Views == {Identity, Undefined}

\* A canvas element of the page before any context has adjusted it: its
\* backing size is the HTML default.
NewCanvas(scrollWidth, scrollHeight) ==
    [scrollWidth |-> scrollWidth, scrollHeight |-> scrollHeight,
     width |-> 300, height |-> 150]

\* A scene object of the demo's kind: model and view matrix uniforms,
\* positions from "main", one indexed draw.
DemoObject(i, inclusionFlags) ==
    [id |-> SceneObjectId(i),
     matrix |-> Identity,
     renderCommands |->
        <<NewCmdUniformMatrix("u_model_matrix", "matrix", SCENE_OBJECT,
                              FALSE, AllFlags).value,
          NewCmdUniformMatrix("u_view_matrix", "view", RENDER_STAGE,
                              FALSE, AllFlags).value,
          NewCmdSetAttrib("a_position", "main", 3, 6, 0, AllFlags).value,
          NewCmdDrawElements("main", 1, Infinity, 0, AllFlags).value>>,
     attribArrays |-> MainAttribArrays,
     elementArrays |-> MainElementArrays,
     inclusionFlags |-> inclusionFlags]

\* A scene object that uploads the stage's view and draws.
LoopObject(i) ==
    [id |-> SceneObjectId(i),
     matrix |-> Identity,
     renderCommands |->
        <<NewCmdUniformMatrix("u_view_matrix", "view", RENDER_STAGE,
                              FALSE, AllFlags).value,
          NewCmdDrawElements("main", 1, Infinity, 0, AllFlags).value>>,
     attribArrays |-> MainAttribArrays,
     elementArrays |-> MainElementArrays,
     inclusionFlags |-> AllFlags]

\* The scenes of two objects.
ContextScenes ==
    {<<DemoObject(1, f1), DemoObject(2, f2)>> : f1 \in CommandFlags, f2 \in CommandFlags}

\* The properties of a stage in a context description.
StageProperties(view, inclusionFlags) ==
    [view |-> view, inclusionFlags |-> inclusionFlags,
     program |-> CHOOSE p \in Programs : p.name = "vertex.vert"]

\* The context descriptions: a first context of two stages on canvas 1 and
\* a second of one stage, whose selector matches canvas 2 or, again,
\* canvas 1.
ContextDescriptions ==
    {<<[canvas |-> 1, stages |-> <<StageProperties(Identity, m),
                                   StageProperties(Identity, AllFlags)>>],
       [canvas |-> k, stages |-> <<StageProperties(Identity, AllFlags)>>]>> :
        m \in StageFlags, k \in {1, 2}}

\* A scene object of the demo's kind with one of its commands at fault:
\* positions from an attribute array that does not exist, a draw from an
\* element array that does not exist, a stride of 64 floats, or a model
\* matrix read from a property the scene object does not have.
FaultyObject(i, inclusionFlags, fault) ==
    [DemoObject(i, inclusionFlags) EXCEPT !.renderCommands =
        <<NewCmdUniformMatrix("u_model_matrix",
                              IF fault = "property" THEN "nomatrix" ELSE "matrix",
                              SCENE_OBJECT, FALSE, AllFlags).value,
          NewCmdUniformMatrix("u_view_matrix", "view", RENDER_STAGE,
                              FALSE, AllFlags).value,
          NewCmdSetAttrib("a_position",
                          IF fault = "attribArray" THEN "nokey" ELSE "main",
                          3, IF fault = "stride" THEN 64 ELSE 6, 0, AllFlags).value,
          NewCmdDrawElements(IF fault = "elementArray" THEN "nokey" ELSE "main",
                             1, Infinity, 0, AllFlags).value>>]

Faults == {"none", "attribArray", "elementArray", "stride", "property"}

\* The load listener's calls: a scene of two objects, each with its mask
\* and possibly a fault, and two contexts of one stage each, on two
\* canvases.
LoadCalls ==
    {[fn |-> "load", faults |-> <<x1, x2>>, flags |-> <<f1, f2>>,
      contextDescriptions |->
          <<[canvas |-> 1, stages |-> <<StageProperties(Identity, m1)>>],
            [canvas |-> 2, stages |-> <<StageProperties(Identity, m2)>>]>>] :
        x1 \in Faults, x2 \in Faults, f1 \in CommandFlags, f2 \in CommandFlags,
        m1 \in StageFlags, m2 \in StageFlags}

\* The page before the load event: the scene is authored, the canvases are
\* laid out, no context is built.
LoadInit ==
    /\ call \in LoadCalls
    /\ outcome = <<>>
    /\ theScene = [i \in 1..2 |-> FaultyObject(i, call.flags[i], call.faults[i])]
    /\ canvases = <<NewCanvas(2, 1), NewCanvas(1, 2)>>
    /\ renderContexts = <<>>
    /\ glCalls = <<>>
    /\ console = <<>>

\* What the load listener is left with: the contexts buildRenderContexts
\* returned, or its exception and no context.
Loaded(built) ==
    /\ canvases' = built.canvases
    /\ renderContexts' = IF built.ok THEN built.renderContexts ELSE <<>>
    /\ outcome' = IF built.ok THEN <<Returned("renderContexts")>> ELSE built.error
    /\ UNCHANGED <<call, theScene, glCalls, console>>
    /\ UNCHANGED <<stageVars, compileVars, shaderVars, loopVars>>

\* The load listener: render.buildRenderContexts(scene, contextDescriptions).
Load ==
    /\ call.fn = "load"
    /\ outcome = <<>>
    /\ Loaded(buildRenderContexts(theScene, call.contextDescriptions, canvases))

\* The state a successful buildRenderContexts leaves.
ContextsAre(sc, built) ==
    /\ built.ok
    /\ canvases = built.canvases
    /\ renderContexts = built.renderContexts
    /\ theScene = sc
    /\ glCalls = <<>>
    /\ console = <<>>

ContextsBuilt(sc, contextDescriptions, cvs) ==
    ContextsAre(sc, buildRenderContexts(sc, contextDescriptions, cvs))

\* The canvases some context renders to.
UsedCanvases == {renderContexts[c].canvas : c \in 1..Len(renderContexts)}

\* No canvas, no scene, no RenderContext.
ContextIdle ==
    /\ canvases = <<>>
    /\ theScene = <<>>
    /\ renderContexts = <<>>
    /\ glCalls = <<>>
    /\ console = <<>>

\* A scene object with the demo's full command list: model, view and
\* projection matrix uniforms, positions and colors from "main", one
\* indexed draw.
PassObject(i) ==
    [id |-> SceneObjectId(i),
     matrix |-> Identity,
     renderCommands |->
        <<NewCmdUniformMatrix("u_model_matrix", "matrix", SCENE_OBJECT,
                              FALSE, AllFlags).value,
          NewCmdUniformMatrix("u_view_matrix", "view", RENDER_STAGE,
                              FALSE, AllFlags).value,
          NewCmdUniformMatrix("u_projection_matrix", "projection", RENDER_STAGE,
                              FALSE, AllFlags).value,
          NewCmdSetAttrib("a_position", "main", 3, 6, 0, AllFlags).value,
          NewCmdSetAttrib("a_color", "main", 3, 6, 3, AllFlags).value,
          NewCmdDrawElements("main", 1, Infinity, 0, AllFlags).value>>,
     attribArrays |-> MainAttribArrays,
     elementArrays |-> MainElementArrays,
     inclusionFlags |-> AllFlags]

\* The stage's projection property holding the entries m.
ProjectionValue(m) == Mat4Value(<<"projection", m>>)

\* The contexts with the projection of stage s of context c holding m.
WithProjection(ctxs, c, s, m) ==
    [ctxs EXCEPT ![c].renderStages[s].projection = ProjectionValue(m)]

\* What a render call leaves: the matrix, the calls made and the exception
\* that left it, if any.
Rendered(m, r) == [projection |-> m, calls |-> r.calls, error |-> r.error]

\* A render that clears and runs the closures first and brings the matrix
\* up to date afterwards.
RenderStage_renderThenAdjust(c, s, aspectX, aspectY, surface, m, sc, ctxs) ==
    Rendered(AdjustedZW(AdjustedXY(m, aspectX, aspectY)),
             RenderStage_render(c, s, aspectX, aspectY, surface, sc,
                                WithProjection(ctxs, c, s, m)))

\* RenderStage.render(aspectX, aspectY), whole: _adjustPerspectiveXY and
\* _adjustPerspectiveZW on the matrix m, then the gl calls, whose closures
\* read the adjusted matrix.
RenderStage_renderWhole(c, s, aspectX, aspectY, surface, m, sc, ctxs) ==
    Rendered(AdjustedZW(AdjustedXY(m, aspectX, aspectY)),
             RenderStage_render(c, s, aspectX, aspectY, surface, sc,
                                WithProjection(ctxs, c, s,
                                    AdjustedZW(AdjustedXY(m, aspectX, aspectY)))))

\* What the render call of the only stage leaves in the variables.
StageRendered(aspectX, aspectY, r) ==
    /\ _viewRange' = IF fieldOfView # _fieldOfView
                     THEN ViewRangeOf(fieldOfView) ELSE _viewRange
    /\ _fieldOfView' = fieldOfView
    /\ _aspectX' = aspectX
    /\ _aspectY' = aspectY
    /\ _zNear' = zNear
    /\ _zFar' = zFar
    /\ projection' = r.projection
    /\ glCalls' = r.calls
    /\ console' = r.error
    /\ lastCall' = [op |-> "render", aspectX |-> aspectX, aspectY |-> aspectY]

\* renderStages[1].render(aspectX, aspectY) of the only context.
PassRender(aspectX, aspectY) ==
    /\ StageRendered(aspectX, aspectY,
                     RenderStage_renderWhole(1, 1, aspectX, aspectY,
                                             <<canvases[1].scrollWidth,
                                               canvases[1].scrollHeight>>,
                                             projection, theScene, renderContexts))
    /\ UNCHANGED <<fieldOfView, zNear, zFar>>
    /\ UNCHANGED <<canvases, theScene, renderContexts>>
    /\ UNCHANGED <<compileVars, callVars, shaderVars, loopVars>>

----------------------------------------------------------------------------
(* shaderutil.mjs: shader sources loaded, cached and compiled              *)

\* The directory of window.location.href, as path segments.
PageDirectory == <<"stereogram">>

\* The path of a URL with its "." and ".." segments resolved.
RECURSIVE RemoveDotSegments(_, _)
RemoveDotSegments(path, out) ==
    IF path = <<>> THEN out
    ELSE IF Head(path) = "." THEN RemoveDotSegments(Tail(path), out)
    ELSE IF Head(path) = ".."
    THEN RemoveDotSegments(Tail(path),
                           IF out = <<>> THEN out ELSE SubSeq(out, 1, Len(out) - 1))
    ELSE RemoveDotSegments(Tail(path), Append(out, Head(path)))

\* The href a relative URL resolves to against the page.
Href(url) == RemoveDotSegments(PageDirectory \o url, <<>>)

\* new URL(url, window.location.href): an object of its own, the id-th
\* allocated, holding the resolved href.
NewURL(url, id) == [id |-> id, href |-> Href(url)]

\* Map.prototype.get finds the entry whose key is the same value as the
\* one asked for; two objects are the same value when they are one object.
MapHas(map, key) == key \in DOMAIN map

MapGet(map, key) == map[key]

\* The files the server has, by href, and the stage each is written for.
Served ==
    [h \in {<<"stereogram", "shaders", "vertex.vert">>,
            <<"stereogram", "shaders", "fragment.frag">>} |->
        IF h[3] = "vertex.vert" THEN "gl.VERTEX_SHADER" ELSE "gl.FRAGMENT_SHADER"]

\* loadShader(url, mime): the response text, or Error(statusText).
loadShader(url, mime) ==
    IF Href(url) \in DOMAIN Served
    THEN Returned([href |-> Href(url), written |-> Served[Href(url)]])
    ELSE Thrown("Error", "Not Found")

\* gl.getShaderParameter(shader, gl.COMPILE_STATUS): a source compiles as
\* the kind of shader it was written for.
CompileStatus(type, source) == source.written = type

\* createShader(gl, type, source): the shader objects after it, and the
\* shader returned or the error thrown; a shader that does not compile is
\* deleted before the throw.
createShader(shaders, type, source) ==
    IF CompileStatus(type, source)
    THEN [glShaders |-> Append(shaders, [type |-> type, deleted |-> FALSE]),
          result |-> Returned(Len(shaders) + 1)]
    ELSE [glShaders |-> Append(shaders, [type |-> type, deleted |-> TRUE]),
          result |-> Thrown("Error", "shader info log")]

\* The body createVertexShader and createFragmentShader share: kind names
\* the cache, mime and type are what the function passes on.
CreateShaderFromURL(kind, mime, type, url) ==
    LET normalizedURL == NewURL(url, urlObjects + 1)
        hit == MapHas(_cache[kind], normalizedURL)
        loaded == IF hit THEN Returned(MapGet(_cache[kind], normalizedURL))
                  ELSE loadShader(url, mime)
    IN  /\ urlObjects' = urlObjects + 1
        /\ loads' = IF hit THEN loads
                    ELSE Append(loads, [href |-> Href(url), mime |-> mime])
        /\ IF loaded.threw
           THEN /\ _cache' = _cache
                /\ glShaders' = glShaders
                /\ lastShader' = [kind |-> kind, href |-> Href(url),
                                  fromCache |-> hit, threw |-> TRUE]
           ELSE /\ _cache' = IF hit THEN _cache
                             ELSE [_cache EXCEPT ![kind] =
                                      MapSet(@, normalizedURL, loaded.value)]
                /\ glShaders' = createShader(glShaders, type, loaded.value).glShaders
                /\ lastShader' = [kind |-> kind, href |-> Href(url),
                                  fromCache |-> hit,
                                  threw |-> createShader(glShaders, type,
                                                         loaded.value).result.threw]
        /\ UNCHANGED <<stageVars, compileVars, callVars, contextVars, tasks, loopVars>>

\* The most shader creations followed.
MaxShaderCalls == 3

\* The URLs shaders are created from: two spellings of the vertex shader's,
\* the fragment shader's, and one the server does not have.
ShaderURLs ==
    {<<"shaders", "vertex.vert">>, <<".", "shaders", "vertex.vert">>,
     <<"shaders", "fragment.frag">>, <<"shaders", "missing.vert">>}

\* createVertexShader(gl, url)
createVertexShader(url) ==
    /\ urlObjects < MaxShaderCalls
    /\ CreateShaderFromURL("vertex", "x-shader/x-vertex", "gl.VERTEX_SHADER", url)

\* createFragmentShader(gl, url)
createFragmentShader(url) ==
    /\ urlObjects < MaxShaderCalls
    /\ CreateShaderFromURL("fragment", "x-shader/x-fragment", "gl.FRAGMENT_SHADER", url)

\* The module loaded: both caches empty, nothing requested or created.
ShaderIdle ==
    /\ _cache = [vertex |-> EmptyMap, fragment |-> EmptyMap]
    /\ urlObjects = 0
    /\ loads = <<>>
    /\ glShaders = <<>>
    /\ lastShader = [kind |-> "none"]
    /\ tasks = [main |-> "idle"]

ShaderNext ==
    \/ \E url \in ShaderURLs : createVertexShader(url)
    \/ \E url \in ShaderURLs : createFragmentShader(url)

----------------------------------------------------------------------------
(* The asynchronous shader utilities: compileAndLinkProgram as a promise   *)

\* A shader creation whose fetch has been sent.
Fetching(url) == [pc |-> "fetching", url |-> url, shader |-> 0]

\* gl.deleteShader for every shader listed.
Deleted(shaders, listed) ==
    [k \in 1..Len(shaders) |->
        IF \E i \in 1..Len(listed) : listed[i] = k
        THEN [shaders[k] EXCEPT !.deleted = TRUE] ELSE shaders[k]]

\* compileAndLinkProgram(gl, vertexShaderUrl, fragmentShaderUrl) up to its
\* first await: both creations have been started, each has sent its fetch,
\* and the function waits for the vertex shader's promise.
AsyncInit ==
    /\ _cache = [vertex |-> EmptyMap, fragment |-> EmptyMap]
    /\ urlObjects = 2
    /\ glShaders = <<>>
    /\ lastShader = [kind |-> "none"]
    /\ \E vertexShaderUrl \in ShaderURLs, fragmentShaderUrl \in ShaderURLs :
          /\ loads = <<[href |-> Href(vertexShaderUrl), mime |-> "fetch"],
                       [href |-> Href(fragmentShaderUrl), mime |-> "fetch"]>>
          /\ tasks = [main |-> "await vertexShaderPromise",
                      shaders |-> <<>>,
                      vertex |-> Fetching(vertexShaderUrl),
                      fragment |-> Fetching(fragmentShaderUrl)]

\* The fetch of one creation settles: loadShader goes on to read the text
\* of an ok response and throws on any other, which rejects the creation.
FetchSettles(kind) ==
    /\ tasks.main # "idle"
    /\ tasks[kind].pc = "fetching"
    /\ tasks' = [tasks EXCEPT ![kind].pc =
                    IF loadShader(tasks[kind].url, "fetch").threw
                    THEN "rejected" ELSE "reading"]
    /\ UNCHANGED <<_cache, urlObjects, loads, glShaders, lastShader>>
    /\ UNCHANGED <<stageVars, compileVars, callVars, contextVars, loopVars>>

\* What createShader leaves of one creation.
ShaderSettled(kind, created) ==
    /\ glShaders' = created.glShaders
    /\ tasks' = IF created.result.threw
                THEN [tasks EXCEPT ![kind].pc = "rejected"]
                ELSE [tasks EXCEPT ![kind].pc = "fulfilled",
                                   ![kind].shader = created.result.value]

\* The text of one creation's response arrives: createShader compiles it,
\* and the creation's promise is fulfilled with the shader or rejected.
TextSettles(kind) ==
    /\ tasks.main # "idle"
    /\ tasks[kind].pc = "reading"
    /\ ShaderSettled(kind,
                     createShader(glShaders,
                                  IF kind = "vertex" THEN "gl.VERTEX_SHADER"
                                  ELSE "gl.FRAGMENT_SHADER",
                                  loadShader(tasks[kind].url, "fetch").value))
    /\ UNCHANGED <<_cache, urlObjects, loads, lastShader>>
    /\ UNCHANGED <<stageVars, compileVars, callVars, contextVars, loopVars>>

\* The catch block: the shaders pushed so far are deleted and the error is
\* thrown again, which rejects the returned promise.
Caught ==
    /\ glShaders' = Deleted(glShaders, tasks.shaders)
    /\ tasks' = [tasks EXCEPT !.main = "rejected"]

\* The function resumes from `await vertexShaderPromise`.
ResumeAfterVertex ==
    /\ tasks.main = "await vertexShaderPromise"
    /\ tasks.vertex.pc \in {"fulfilled", "rejected"}
    /\ IF tasks.vertex.pc = "rejected" THEN Caught
       ELSE /\ tasks' = [tasks EXCEPT !.main = "await fragmentShaderPromise",
                                      !.shaders = Append(@, tasks.vertex.shader)]
            /\ glShaders' = glShaders
    /\ UNCHANGED <<_cache, urlObjects, loads, lastShader>>
    /\ UNCHANGED <<stageVars, compileVars, callVars, contextVars, loopVars>>

\* The function resumes from `await fragmentShaderPromise` and, with both
\* shaders, creates the program, which links and validates or does not.
ResumeAfterFragment(linked) ==
    /\ tasks.main = "await fragmentShaderPromise"
    /\ tasks.fragment.pc \in {"fulfilled", "rejected"}
    /\ IF tasks.fragment.pc = "rejected" THEN Caught
       ELSE IF linked
       THEN /\ tasks' = [tasks EXCEPT !.main = "fulfilled",
                                      !.shaders = Append(@, tasks.fragment.shader)]
            /\ glShaders' = glShaders
       ELSE /\ glShaders' = Deleted(glShaders,
                                    Append(tasks.shaders, tasks.fragment.shader))
            /\ tasks' = [tasks EXCEPT !.main = "rejected",
                                      !.shaders = Append(@, tasks.fragment.shader)]
    /\ UNCHANGED <<_cache, urlObjects, loads, lastShader>>
    /\ UNCHANGED <<stageVars, compileVars, callVars, contextVars, loopVars>>

AsyncNext ==
    \/ \E kind \in {"vertex", "fragment"} : FetchSettles(kind)
    \/ \E kind \in {"vertex", "fragment"} : TextSettles(kind)
    \/ ResumeAfterVertex
    \/ \E linked \in BOOLEAN : ResumeAfterFragment(linked)

----------------------------------------------------------------------------
(* Specifications                                                          *)

\* A stage rendered again and again while its owner changes its settings.
InitStage == StageInit /\ ShaderIdle /\ LoopIdle /\ CompileIdle /\ CallIdle /\ ContextIdle

SpecStage == InitStage /\ [][StageNext]_vars

\* A scene object compiled for a stage.
InitCompile == StageDefault /\ ShaderIdle /\ LoopIdle /\ CompileInit /\ CallIdle /\ ContextIdle

SpecCompile == InitCompile /\ [][CompileNext]_vars

\* CmdDrawElements.prepare called on an allocated element buffer.
InitDraw == StageDefault /\ ShaderIdle /\ LoopIdle /\ CompileIdle /\ DrawInit /\ ContextIdle

SpecDraw == InitDraw /\ [][DrawNext]_vars

\* uniformSource.getPropertyReader called.
InitReader == StageDefault /\ ShaderIdle /\ LoopIdle /\ CompileIdle /\ ReaderInit /\ ContextIdle

SpecReader == InitReader /\ [][ReaderNext]_vars

\* The page loaded: the contexts built over a scene that may hold an object
\* at fault, then rendered.
InitLoad == StageDefault /\ ShaderIdle /\ LoopIdle /\ CompileIdle /\ LoadInit

LoadNext ==
    \/ Load
    \/ \E c \in 1..Len(renderContexts) : ContextRender(c)

SpecLoad == InitLoad /\ [][LoadNext]_vars

\* A render command constructed from its configuration, then prepared.
InitConfig == StageDefault /\ ShaderIdle /\ LoopIdle /\ CompileIdle /\ ConfigInit /\ ContextIdle

SpecConfig == InitConfig /\ [][ConfigNext]_vars

\* A SceneObject's attribute data stored.
InitAttrib == StageDefault /\ ShaderIdle /\ LoopIdle /\ CompileIdle /\ AttribInit /\ ContextIdle

SpecAttrib == InitAttrib /\ [][AttribNext]_vars

\* A SceneObject's element indices stored.
InitElement == StageDefault /\ ShaderIdle /\ LoopIdle /\ CompileIdle /\ ElementInit /\ ContextIdle

SpecElement == InitElement /\ [][ElementNext]_vars

\* CmdUniformMatrix.prepare called on a uniform and a property value.
InitUniform == StageDefault /\ ShaderIdle /\ LoopIdle /\ CompileIdle /\ UniformInit /\ ContextIdle

SpecUniform == InitUniform /\ [][UniformNext]_vars

\* One RenderContext of one stage on a canvas that is resized and rendered.
InitCanvas ==
    /\ StageDefault /\ ShaderIdle /\ LoopIdle /\ CompileIdle /\ CallIdle
    /\ \E w \in 0..MaxSize, h \in 0..MaxSize :
          ContextsBuilt(<<DemoObject(1, AllFlags)>>,
                        <<[canvas |-> 1,
                           stages |-> <<StageProperties(Identity, AllFlags)>>]>>,
                        <<NewCanvas(w, h)>>)

CanvasNext ==
    \/ \E w \in 0..MaxSize, h \in 0..MaxSize : Resize(1, w, h)
    \/ ContextRender(1)

SpecCanvas == InitCanvas /\ [][CanvasNext]_vars

\* Two RenderContexts, on one canvas or on two, resized and rendered.
InitContext ==
    /\ StageDefault /\ ShaderIdle /\ LoopIdle /\ CompileIdle /\ CallIdle
    /\ \E sc \in ContextScenes, d \in ContextDescriptions :
          ContextsBuilt(sc, d, <<NewCanvas(2, 1), NewCanvas(2, 1)>>)

ContextNext ==
    \/ \E k \in UsedCanvases, size \in CanvasSizes : Resize(k, size[1], size[2])
    \/ \E c \in 1..Len(renderContexts) : ContextRender(c)

SpecContext == InitContext /\ [][ContextNext]_vars

\* The animation loop over two RenderContexts whose stages' views change.
InitFrame ==
    /\ StageDefault /\ ShaderIdle /\ LoopStarted /\ CompileIdle /\ CallIdle
    /\ \E sc \in ContextScenes, d \in ContextDescriptions :
          ContextsBuilt(sc, d, <<NewCanvas(2, 1), NewCanvas(1, 2)>>)

FrameNext ==
    \/ \E now \in 1..MaxNow : renderAnimationCallback(now)
    \/ \E c \in 1..Len(renderContexts) :
          \E s \in 1..Len(renderContexts[c].renderStages), view \in Views :
              SetView(c, s, view)

SpecFrame == InitFrame /\ [][FrameNext]_vars

\* One stage over the demo's scene, rendered with changing aspect pairs
\* while its owner changes its settings.
InitPass ==
    /\ StageInit /\ ShaderIdle /\ LoopIdle /\ CompileIdle /\ CallIdle
    /\ ContextsBuilt(<<PassObject(1), PassObject(2)>>,
                     <<[canvas |-> 1,
                        stages |-> <<StageProperties(Identity, AllFlags)>>]>>,
                     <<NewCanvas(2, 1)>>)

PassNext ==
    \/ \E ax \in Aspects, ay \in Aspects : PassRender(ax, ay)
    \/ \E v \in FieldsOfView : SetFieldOfView(v)
    \/ \E v \in 1..2 : SetZNear(v)
    \/ \E v \in (2..MaxPlane) \cup {Infinity} : SetZFar(v)

SpecPass == InitPass /\ [][PassNext]_vars

\* Vertex and fragment shaders created from URLs, one call after another.
InitShader == StageDefault /\ ShaderIdle /\ LoopIdle /\ CompileIdle /\ CallIdle /\ ContextIdle

SpecShader == InitShader /\ [][ShaderNext]_vars

\* One asynchronous compileAndLinkProgram, its two shader creations and
\* the function itself taking their steps in any order.
InitAsync == StageDefault /\ AsyncInit /\ LoopIdle /\ CompileIdle /\ CallIdle /\ ContextIdle

SpecAsync == InitAsync /\ [][AsyncNext]_vars

\* CmdUniformMatrix.prepare called on commands whose property may not be
\* resolvable, for programs with and without the uniform.
InitResolve == StageDefault /\ ShaderIdle /\ LoopIdle /\ CompileIdle /\ ResolveInit /\ ContextIdle

SpecResolve == InitResolve /\ [][UniformNext]_vars

\* A SceneObject constructed from one attribute descriptor and one element
\* descriptor.
InitScene == StageDefault /\ ShaderIdle /\ LoopIdle /\ CompileIdle /\ SceneInit /\ ContextIdle

SpecScene == InitScene /\ [][SceneNext]_vars

\* A page of one canvas from the moment its context is built: the animation
\* loop is started and the browser delivers frames, which it does as long
\* as a callback is requested, while the stage's view changes.
InitLoop ==
    /\ StageDefault /\ ShaderIdle /\ LoopIdle /\ CompileIdle /\ CallIdle
    /\ \E w \in 0..MaxSize, h \in 0..MaxSize :
          ContextsBuilt(<<LoopObject(1)>>,
                        <<[canvas |-> 1,
                           stages |-> <<StageProperties(Identity, AllFlags)>>]>>,
                        <<NewCanvas(w, h)>>)

AnimationFrame == \E now \in 1..MaxNow : renderAnimationCallback(now)

LoopNext ==
    \/ startAnimationLoop
    \/ AnimationFrame
    \/ \E c \in 1..Len(renderContexts) :
          \E s \in 1..Len(renderContexts[c].renderStages), view \in Views :
              SetView(c, s, view)

SpecLoop ==
    /\ InitLoop /\ [][LoopNext]_vars
    /\ WF_vars(startAnimationLoop)
    /\ WF_vars(AnimationFrame)

----------------------------------------------------------------------------
----------------------------------------------------------------------------
(* What the claims about compilation speak of                              *)

Compiled == renderStage.state = "constructed"

Cmds == sceneObject.renderCommands

\* The authored positions of the commands whose flags meet the stage's.
PassingCommands ==
    {i \in 1..Len(Cmds) : BitAnd(Cmds[i].inclusionFlags, renderStage.inclusionFlags) # 0}

ObjectPasses == BitAnd(sceneObject.inclusionFlags, renderStage.inclusionFlags) # 0

\* The names of the attributes active in the stage's program.
ActiveAttribs ==
    {renderStage.program.attribs[i].name : i \in 1..Len(renderStage.program.attribs)}

\* The passing SetAttribute commands whose attribute is active, and the
\* passing DrawIndexed commands.
ActiveSetAttribs ==
    {i \in PassingCommands :
        Cmds[i].kind = "CmdSetAttrib" /\ Cmds[i].attribName \in ActiveAttribs}

InactiveSetAttribs ==
    {i \in PassingCommands :
        Cmds[i].kind = "CmdSetAttrib" /\ Cmds[i].attribName \notin ActiveAttribs}

PassingDraws == {i \in PassingCommands : Cmds[i].kind = "CmdDrawElements"}

\* The closures of ro that came from the command at authored position i.
ClosuresOf(ro, i) ==
    LET From(j) == ro.origins[j] = i
        at == SelectSeq([j \in 1..Len(ro.origins) |-> j], From)
    IN  [k \in 1..Len(at) |-> ro.preparedCommands[at[k]]]

\* The keys uploaded to a target while the stage was constructed.
Uploaded(target) ==
    {renderStage.gl[j].key :
        j \in {x \in 1..Len(renderStage.gl) : renderStage.gl[x].target = target}}

\* The demo's commands: position and colour interleaved in "main", and the
\* draw of all of "main" as triangles.
PosCmd(flags) == NewCmdSetAttrib("a_position", "main", 3, 6, 0, flags).value

ColorCmd(flags) == NewCmdSetAttrib("a_color", "main", 3, 6, 3, flags).value

DrawCmd(flags) == NewCmdDrawElements("main", 1, Infinity, 0, flags).value

----------------------------------------------------------------------------
(* C2: the closure list of a compiled object is the concatenation, in the  *)
(* authored order of the relevant commands, of what prepare returned for   *)
(* each: no closure of a later command precedes one of an earlier command. *)
(* [SetAttribute(pos), SetAttribute(color), DrawIndexed] with both         *)
(* attributes active and no filtering gives exactly 3 closures in that     *)
(* order, the draw closure with count 6 and offset 0.                      *)
C2_Scenario ==
    /\ Compiled
    /\ Cmds = <<PosCmd(AllFlags), ColorCmd(AllFlags), DrawCmd(AllFlags)>>
    /\ renderStage.program.name = "vertex.vert"
    /\ renderStage.inclusionFlags = AllFlags

C2_ClosuresInAuthoredOrder ==
    /\ Compiled =>
        \A n \in 1..Len(renderStage.renderObjects) :
            LET ro == renderStage.renderObjects[n]
            IN  /\ Len(ro.origins) = Len(ro.preparedCommands)
                /\ \A j \in 1..Len(ro.origins) : ro.origins[j] \in PassingCommands
                /\ \A j, k \in 1..Len(ro.origins) :
                        j < k => ro.origins[j] <= ro.origins[k]
                /\ \A i \in PassingCommands :
                        ClosuresOf(ro, i) = prepare(Cmds[i], ro, StageObject(1, Identity)).value
    /\ C2_Scenario =>
        /\ Len(renderStage.renderObjects) = 1
        /\ LET pc == renderStage.renderObjects[1].preparedCommands
           IN  /\ Len(pc) = 3
               /\ pc[1].fn = "CmdSetAttrib._cmd" /\ pc[1].location = 0
               /\ pc[2].fn = "CmdSetAttrib._cmd" /\ pc[2].location = 1
               /\ pc[3].fn = "CmdDrawElements._cmd"
               /\ pc[3].count = 6 /\ pc[3].offset = 0

\* The scenario compiled: three closures, and the element buffer, allocated
\* last, serves the closure that comes last.
C2_Witness ==
    /\ C2_Scenario
    /\ Len(renderStage.renderObjects[1].preparedCommands) = 3
    /\ Len(renderStage.gl) = 2

----------------------------------------------------------------------------
(* C3: after a RenderObject is constructed the keys of attribBuffers are   *)
(* exactly the buffer names of the relevant SetAttribute commands whose    *)
(* attribute is active, the keys of elementBuffers exactly those of the    *)
(* relevant DrawIndexed commands, and no other buffer of the scene object  *)
(* is created or uploaded.                                                 *)
C3_OnlyReferencedBuffersAllocated ==
    /\ Compiled =>
        \A n \in 1..Len(renderStage.renderObjects) :
            LET ro == renderStage.renderObjects[n]
            IN  /\ DOMAIN ro.attribBuffers = {Cmds[i].bufferName : i \in ActiveSetAttribs}
                /\ DOMAIN ro.elementBuffers = {Cmds[i].bufferName : i \in PassingDraws}
                /\ Uploaded("gl.ARRAY_BUFFER") = DOMAIN ro.attribBuffers
                /\ Uploaded("gl.ELEMENT_ARRAY_BUFFER") = DOMAIN ro.elementBuffers
                /\ Len(renderStage.gl) =
                      Cardinality(DOMAIN ro.attribBuffers)
                    + Cardinality(DOMAIN ro.elementBuffers)
    /\ (Compiled /\ renderStage.renderObjects = <<>>) => renderStage.gl = <<>>

\* A compiled object whose scene object holds the attribute array "main",
\* names it in a SetAttribute command that passes the flags, and yet has no
\* attribute buffer: the attribute is not active.
C3_Witness ==
    /\ Compiled
    /\ Len(renderStage.renderObjects) = 1
    /\ InactiveSetAttribs # {}
    /\ \E i \in InactiveSetAttribs : Cmds[i].bufferName = "main"
    /\ DOMAIN renderStage.renderObjects[1].attribBuffers = {}
    /\ DOMAIN renderStage.renderObjects[1].elementBuffers = {"main"}

----------------------------------------------------------------------------
(* C4: a command contributes closures to a stage only if the scene         *)
(* object's flags and the command's own flags both share a bit with the    *)
(* stage's flags; a command that shares none yields no closure and no      *)
(* buffer.  The pos/color/draw scene compiled for a stage whose flags      *)
(* exclude the draw command has 2 closures and no element buffer.          *)
C4_Scenario ==
    /\ Compiled
    /\ Cmds = <<PosCmd(AllFlags), ColorCmd(AllFlags), DrawCmd(1)>>
    /\ renderStage.program.name = "vertex.vert"
    /\ renderStage.inclusionFlags = 2
    /\ ObjectPasses

C4_OnlyPassingCommandsContribute ==
    /\ Compiled =>
        /\ ~ObjectPasses => renderStage.renderObjects = <<>> /\ renderStage.gl = <<>>
        /\ \A n \in 1..Len(renderStage.renderObjects) :
            LET ro == renderStage.renderObjects[n]
            IN  /\ ObjectPasses
                /\ \A j \in 1..Len(ro.origins) :
                        BitAnd(Cmds[ro.origins[j]].inclusionFlags,
                               renderStage.inclusionFlags) # 0
                /\ \A b \in DOMAIN ro.attribBuffers :
                        \E i \in PassingCommands :
                            Cmds[i].kind = "CmdSetAttrib" /\ Cmds[i].bufferName = b
                /\ \A b \in DOMAIN ro.elementBuffers :
                        \E i \in PassingCommands :
                            Cmds[i].kind = "CmdDrawElements" /\ Cmds[i].bufferName = b
    /\ C4_Scenario =>
        /\ Len(renderStage.renderObjects) = 1
        /\ Len(renderStage.renderObjects[1].preparedCommands) = 2
        /\ \A j \in 1..2 :
              renderStage.renderObjects[1].preparedCommands[j].fn = "CmdSetAttrib._cmd"
        /\ DOMAIN renderStage.renderObjects[1].elementBuffers = {}

C4_Witness ==
    /\ C4_Scenario
    /\ Len(renderStage.renderObjects[1].preparedCommands) = 2
    /\ Uploaded("gl.ELEMENT_ARRAY_BUFFER") = {}

----------------------------------------------------------------------------
(* C5: a relevant SetAttribute command whose attribute is not active in    *)
(* the program causes no error, yields no closure and has no buffer        *)
(* allocated for it, whatever its buffer name (a name the scene object     *)
(* lacks included), offset, stride and size: the stage is constructed as   *)
(* if the command were not in the list.                                    *)

\* The scene object without its relevant SetAttribute commands of inactive
\* attributes.
C5_Without ==
    LET Keep(c) == ~(/\ c.kind = "CmdSetAttrib"
                     /\ BitAnd(c.inclusionFlags, renderStage.inclusionFlags) # 0
                     /\ c.attribName \notin ActiveAttribs)
    IN  [sceneObject EXCEPT !.renderCommands = SelectSeq(Cmds, Keep)]

C5_InactiveAttributeIsSkipped ==
    renderStage.state # "none" =>
        LET without == StageObjectsFrom(<<C5_Without>>, renderStage.program,
                                        renderStage.inclusionFlags, 1, <<>>, <<>>,
                                        StageObject(1, Identity))
        IN  /\ renderStage.state = without.state
            /\ renderStage.gl = without.gl
            /\ renderStage.state = "threw" => renderStage.error = without.error
            /\ Compiled =>
                /\ Len(renderStage.renderObjects) = Len(without.renderObjects)
                /\ \A n \in 1..Len(renderStage.renderObjects) :
                    LET ro == renderStage.renderObjects[n]
                        wo == without.renderObjects[n]
                    IN  /\ ro.preparedCommands = wo.preparedCommands
                        /\ ro.attribBuffers = wo.attribBuffers
                        /\ ro.elementBuffers = wo.elementBuffers
                        /\ \A i \in InactiveSetAttribs : ClosuresOf(ro, i) = <<>>
            /\ (ObjectPasses /\ PassingCommands = InactiveSetAttribs) =>
                /\ Compiled
                /\ renderStage.gl = <<>>
                /\ renderStage.renderObjects[1].preparedCommands = <<>>

\* Compiled without error, closure or buffer although the one command names
\* a buffer the scene object lacks, an offset past the end of every buffer
\* and a stride of more than 255 bytes.
C5_Witness ==
    /\ Compiled
    /\ \E i \in InactiveSetAttribs :
          /\ Cmds[i].bufferName = "nokey"
          /\ Cmds[i].offset = 30
          /\ Cmds[i].stride = 64
    /\ Len(renderStage.renderObjects) = 1
    /\ renderStage.renderObjects[1].preparedCommands = <<>>
    /\ renderStage.gl = <<>>

----------------------------------------------------------------------------
(* C6: compiling a scene object with a relevant SetAttribute command whose *)
(* attribute is active and whose buffer name is no key of the scene        *)
(* object's attribute arrays fails, every time, with the ReferenceError    *)
(* "missing attribute buffer" of CmdSetAttrib.prepare.                     *)
C6_MissingBufferFailsWithReferenceError ==
    (/\ renderStage.state # "none"
     /\ ObjectPasses
     /\ \E i \in ActiveSetAttribs : Cmds[i].bufferName \notin DOMAIN sceneObject.attribArrays)
    => /\ renderStage.state = "threw"
       /\ renderStage.error = Thrown("ReferenceError", "missing attribute buffer")

----------------------------------------------------------------------------
(* C7: a DrawIndexed command constructed with count 0 has inclusionFlags 0 *)
(* whatever flags were passed; for every stage it is filtered out, yields  *)
(* no closure and no element buffer is allocated on its account.           *)
C7_ZeroCountDrawNeverParticipates ==
    /\ \A f \in 0..AllFlags, b \in BufferNames, o \in 0..MaxLen, m \in DrawModes :
            NewCmdDrawElements(b, m, 0, o, f).value.inclusionFlags = 0
    /\ \A i \in 1..Len(Cmds) :
        (Cmds[i].kind = "CmdDrawElements" /\ Cmds[i].count = 0) =>
            /\ Cmds[i].inclusionFlags = 0
            /\ renderStage.state # "none" => i \notin PassingCommands
            /\ Compiled =>
                \A n \in 1..Len(renderStage.renderObjects) :
                    ClosuresOf(renderStage.renderObjects[n], i) = <<>>
    /\ renderStage.state # "none" =>
        \A b \in Uploaded("gl.ELEMENT_ARRAY_BUFFER") :
            \E i \in PassingDraws : Cmds[i].bufferName = b /\ Cmds[i].count # 0

\* A scene object whose only draw command has count 0, compiled for a stage
\* that filters nothing: no closure for it and no element buffer.
C7_Witness ==
    /\ Compiled
    /\ renderStage.inclusionFlags = AllFlags
    /\ Len(renderStage.renderObjects) = 1
    /\ \E i \in 1..Len(Cmds) : Cmds[i].kind = "CmdDrawElements"
    /\ \A i \in 1..Len(Cmds) : Cmds[i].kind = "CmdDrawElements" => Cmds[i].count = 0
    /\ DOMAIN renderStage.renderObjects[1].elementBuffers = {}

----------------------------------------------------------------------------
(* C8: DrawIndexed.prepare on an allocated element buffer of length L,     *)
(* with offset o and count c: the offset error iff o > L; else the count   *)
(* error iff c is finite and c > L - o; else success with the effective    *)
(* count e = L - o for an unbounded c and e = c otherwise, no closure when *)
(* e = 0 and one closure when e > 0, which has count e >= 1, o + e <= L    *)
(* and byteOffset = o * the index element's byte size.                     *)
C8_ByteSize == IF call.elementArray.type = "Uint8Array" THEN 1 ELSE 2

C8_DrawPrepareBounds ==
    (call.fn = "CmdDrawElements.prepare" /\ outcome # <<>>) =>
        LET r == outcome[1]
            L == call.elementArray.length
            o == call.cmd.offset
            c == call.cmd.count
            e == IF c = Infinity THEN L - o ELSE c
            OffsetError == r.threw /\ r.name = "RangeError"
                           /\ r.message = "offset beyond end of buffer"
            CountError == r.threw /\ r.name = "RangeError"
                          /\ r.message = "count goes beyond end of buffer"
        IN  /\ OffsetError <=> o > L
            /\ o <= L => (CountError <=> (c # Infinity /\ c > L - o))
            /\ (o <= L /\ ~(c # Infinity /\ c > L - o)) =>
                /\ ~r.threw
                /\ e = 0 => r.value = <<>>
                /\ e > 0 =>
                    /\ Len(r.value) = 1
                    /\ r.value[1].count = e
                    /\ r.value[1].offset = o * C8_ByteSize
            /\ ~r.threw =>
                \A k \in 1..Len(r.value) :
                    /\ r.value[k].count >= 1
                    /\ o + r.value[k].count <= L
                    /\ r.value[k].offset = o * C8_ByteSize

\* A draw of 16-bit indices that ends exactly at the end of the buffer and
\* does not start at its beginning.
C8_Witness ==
    /\ call.fn = "CmdDrawElements.prepare"
    /\ outcome # <<>>
    /\ ~outcome[1].threw
    /\ Len(outcome[1].value) = 1
    /\ call.cmd.offset > 0
    /\ call.cmd.count # Infinity
    /\ call.cmd.offset + outcome[1].value[1].count = call.elementArray.length
    /\ outcome[1].value[1].offset = 2 * call.cmd.offset

----------------------------------------------------------------------------
(* C9: for FIRST_FOUND getPropertyReader returns a reader bound to the     *)
(* first of render object, stage, scene object that has the property: the  *)
(* render object's value when render object and stage both have it, the    *)
(* stage's when only the stage and the scene object have it.               *)
C9_FirstFoundOrder ==
    (call.fn = "getPropertyReader" /\ outcome # <<>> /\ call.source = FIRST_FOUND) =>
        LET r == outcome[1]
            n == call.name
            inRenderObject == n \in DOMAIN call.renderObject
            inStage == n \in DOMAIN call.renderStage
            inSceneObject == n \in DOMAIN call.renderObject["sceneObject"]
        IN  /\ inRenderObject =>
                ~r.threw /\ Read(r.value) = <<"renderObject", n>>
            /\ (~inRenderObject /\ inStage) =>
                ~r.threw /\ Read(r.value) = <<"renderStage", n>>
            /\ (~inRenderObject /\ ~inStage /\ inSceneObject) =>
                ~r.threw /\ Read(r.value) = <<"sceneObject", n>>
            /\ (~inRenderObject /\ ~inStage /\ ~inSceneObject) =>
                r = Thrown("ReferenceError", "property not found")

\* The property is on the render object and on the stage, and the reader
\* reads the render object's.
C9_Witness ==
    /\ call.fn = "getPropertyReader"
    /\ outcome # <<>>
    /\ call.source = FIRST_FOUND
    /\ call.name \in DOMAIN call.renderObject
    /\ call.name \in DOMAIN call.renderStage
    /\ ~outcome[1].threw
    /\ Read(outcome[1].value) = <<"renderObject", call.name>>

----------------------------------------------------------------------------
(* C10: for RENDER_OBJECT, RENDER_STAGE and SCENE_OBJECT getPropertyReader *)
(* consults that one object alone and fails with "property not found" when *)
(* it lacks the property, even if another object has it; a source outside  *)
(* the four kinds fails with "unsupported uniform source" whatever the     *)
(* objects hold.                                                           *)
C10_SingleCandidateAndUnsupported ==
    (call.fn = "getPropertyReader" /\ outcome # <<>>) =>
        LET r == outcome[1]
            n == call.name
            Only(obj, owner) ==
                IF n \in DOMAIN obj
                THEN ~r.threw /\ r.value.obj = obj /\ Read(r.value) = <<owner, n>>
                ELSE r = Thrown("ReferenceError", "property not found")
        IN  /\ call.source = RENDER_OBJECT => Only(call.renderObject, "renderObject")
            /\ call.source = RENDER_STAGE => Only(call.renderStage, "renderStage")
            /\ call.source = SCENE_OBJECT =>
                    Only(call.renderObject["sceneObject"], "sceneObject")
            /\ call.source \notin {RENDER_OBJECT, RENDER_STAGE, SCENE_OBJECT, FIRST_FOUND} =>
                    r = Thrown("RangeError", "unsupported uniform source")

\* The stage lacks the property, the render object and the scene object
\* have it, and the call for RENDER_STAGE fails.
C10_Witness ==
    /\ call.fn = "getPropertyReader"
    /\ outcome # <<>>
    /\ call.source = RENDER_STAGE
    /\ call.name \notin DOMAIN call.renderStage
    /\ call.name \in DOMAIN call.renderObject
    /\ call.name \in DOMAIN call.renderObject["sceneObject"]
    /\ outcome[1] = Thrown("ReferenceError", "property not found")

----------------------------------------------------------------------------
\* The gl.uniformMatrix4fv calls of the last frame that uploaded the named
\* uniform of shaders/vertex.vert.
UploadsOf(uniformName) ==
    {k \in 1..Len(glCalls) :
        /\ glCalls[k].op = "gl.uniformMatrix4fv"
        /\ glCalls[k].args[1] = (_determineUniformsFrom(
                                    CHOOSE p \in Programs : p.name = "vertex.vert",
                                    1, EmptyMap))[uniformName].location}

(* C11: every upload of the model matrix made in a frame carries the       *)
(* matrix the scene object holds when the closure runs, which is the one   *)
(* the animation driver assigned in that frame, and never the matrix the   *)
(* property held when the command was prepared.                            *)
C11_UploadsCurrentValue ==
    \A k \in UploadsOf("u_model_matrix") :
        /\ glCalls[k].args[3] = theScene[glCalls[k].object].matrix
        /\ glCalls[k].args[3] # Identity

\* A frame has assigned a rotation and a closure prepared while the matrix
\* was the identity has uploaded the rotation.
C11_Witness ==
    \E k \in UploadsOf("u_model_matrix") :
        /\ glCalls[k].args[3] = Rot(MaxNow)
        /\ theScene[glCalls[k].object].matrix = Rot(MaxNow)

----------------------------------------------------------------------------
\* The uniform's declared type and the value's shape agree: 4x4 with a Mat4
\* or a Float32Array of 16, 3x3 with one of 9, 2x2 with one of 4.
ShapeAgrees(type, value) ==
    \/ type = "gl.FLOAT_MAT4" /\ value.class = "Mat4"
    \/ /\ value.class = "Float32Array"
       /\ <<type, value.length>> \in {<<"gl.FLOAT_MAT4", 16>>, <<"gl.FLOAT_MAT3", 9>>,
                                      <<"gl.FLOAT_MAT2", 4>>}

(* C12: for an active uniform and a resolvable property, prepare of the    *)
(* uniform matrix command returns exactly one closure iff the declared     *)
(* type and the sampled value's shape agree, a float sequence being a      *)
(* Float32Array, and throws a TypeError for every other combination, a     *)
(* uniform that is not of a matrix type included.                          *)
C12_OneClosureIffShapeAgrees ==
    (call.fn = "CmdUniformMatrix.prepare" /\ call.active /\ outcome # <<>>) =>
        IF ShapeAgrees(call.type, call.value)
        THEN /\ ~outcome[1].threw
             /\ Len(outcome[1].value) = 1
             /\ outcome[1].value[1].transpose = call.cmd.transpose
        ELSE /\ outcome[1].threw
             /\ outcome[1].name = "TypeError"

\* A 4x4 uniform fed a Float32Array of 9 has thrown, and so the mismatch
\* case has happened.
C12_Witness ==
    /\ call.fn = "CmdUniformMatrix.prepare"
    /\ call.active
    /\ call.type = "gl.FLOAT_MAT4"
    /\ call.value = Float32ArrayValue(9, <<"floats", 9>>)
    /\ outcome = <<Thrown("TypeError", "property is not a 4x4 matrix")>>

----------------------------------------------------------------------------
\* The representations in priority order, and the values each holds
\* exactly.
Representations ==
    <<"Uint8Array", "Int8Array", "Uint16Array", "Int16Array", "Float32Array">>

Holds(type, x) ==
    CASE type = "Uint8Array"  -> x[2] = 1 /\ x[1] \in 0..255
      [] type = "Int8Array"   -> x[2] = 1 /\ x[1] \in -128..127
      [] type = "Uint16Array" -> x[2] = 1 /\ x[1] \in 0..65535
      [] type = "Int16Array"  -> x[2] = 1 /\ x[1] \in -32768..32767
      [] OTHER                -> TRUE

HoldsAll(type, data) == \A k \in 1..Len(data) : Holds(type, data[k])

\* The first representation in priority order that holds all of data.
FirstHolding(data) ==
    Representations[CHOOSE i \in 1..5 :
        /\ HoldsAll(Representations[i], data)
        /\ \A j \in 1..(i - 1) : ~HoldsAll(Representations[j], data)]

\* The representation chosen is the first in priority order that holds
\* every raw value, so none earlier would have sufficed.
C13_FirstRepresentationChosen ==
    (call.fn = "SceneObject._initializeAttribArrays" /\ outcome # <<>>) =>
        outcome[1].value.type = FirstHolding(call.data)

(* C13: the attribute buffer has the first representation in the order     *)
(* Uint8, Int8, Uint16, Int16, Float32 whose range contains every raw      *)
(* value, no earlier one could have held them all, and the stored buffer   *)
(* reads back every input value exactly.                                   *)
C13_ChosenAndExactReadBack ==
    (call.fn = "SceneObject._initializeAttribArrays" /\ outcome # <<>>) =>
        /\ outcome[1].value.type = FirstHolding(call.data)
        /\ outcome[1].value.length = Len(call.data)
        /\ \A k \in 1..Len(call.data) : outcome[1].value.data[k] = call.data[k]

\* data = [0.1] is stored as a Float32Array whose element is not 0.1.
C13_Lossy ==
    /\ call.fn = "SceneObject._initializeAttribArrays"
    /\ call.data = <<Frac(1, 10)>>
    /\ outcome # <<>>
    /\ outcome[1].value.type = "Float32Array"
    /\ outcome[1].value.data[1] = Frac(13421773, 134217728)

----------------------------------------------------------------------------
(* C14: for every array of non-negative integer indices the index buffer   *)
(* is a Uint8Array iff the largest index is at most 255 and a Uint16Array  *)
(* otherwise, and every stored element equals the input index.             *)
C14_IndexTypeAndExactRoundTrip ==
    (call.fn = "SceneObject._initializeElementArrays" /\ outcome # <<>>
        /\ Len(call.indices) > 0) =>
        /\ ~outcome[1].threw
        /\ outcome[1].value.type =
              IF \A k \in 1..Len(call.indices) : call.indices[k][1] <= 255
              THEN "Uint8Array" ELSE "Uint16Array"
        /\ \A k \in 1..Len(call.indices) :
              outcome[1].value.data[k] = call.indices[k]

\* The representation alone: Uint8Array iff the largest index is at most
\* 255, Uint16Array otherwise.
C14_IndexType ==
    (call.fn = "SceneObject._initializeElementArrays" /\ outcome # <<>>
        /\ Len(call.indices) > 0) =>
        /\ ~outcome[1].threw
        /\ outcome[1].value.type =
              IF \A k \in 1..Len(call.indices) : call.indices[k][1] <= 255
              THEN "Uint8Array" ELSE "Uint16Array"

\* indices = [70000] is stored in a Uint16Array as 4464.
C14_Wrapped ==
    /\ call.fn = "SceneObject._initializeElementArrays"
    /\ call.indices = <<Frac(70000, 1)>>
    /\ outcome # <<>>
    /\ outcome[1].value.type = "Uint16Array"
    /\ outcome[1].value.data[1] = Frac(4464, 1)

----------------------------------------------------------------------------
\* The errors of the constructors' range checks, and the error of the byte
\* stride.
ConstructionErrors ==
    {Thrown("RangeError", "size must be between 1 and 4 or null"),
     Thrown("RangeError", "stride must not be negative"),
     Thrown("RangeError", "offset must not be negative"),
     Thrown("RangeError", "count must not be negative")}

StrideError == Thrown("RangeError", "stride is too big")

\* The byte size of an element of the buffer the command reads.
ElementByteSize ==
    CASE call.attribArray.type = "Float32Array" -> 4
      [] call.attribArray.type = "Int16Array"   -> 2
      [] OTHER                                  -> 1

\* The configuration has a size outside 1..4 (0 standing for none), or a
\* negative stride, offset or count.
OutOfRange ==
    IF call.fn = "CmdSetAttrib"
    THEN \/ call.size # 0 /\ call.size \notin 1..4
         \/ call.stride < 0
         \/ call.offset < 0
    ELSE call.count < 0 \/ call.offset < 0

\* Every configuration error, the oversized byte stride included, is
\* raised by the constructor, and prepare of a constructed command raises
\* none of them.
C15_AllConfigurationErrorsAtConstruction ==
    /\ (Len(outcome) >= 1 /\ OutOfRange) => outcome[1] \in ConstructionErrors
    /\ (Len(outcome) >= 1 /\ call.fn = "CmdSetAttrib"
            /\ call.stride * ElementByteSize > 255) => outcome[1].threw
    /\ Len(outcome) = 2 => outcome[2] \notin ConstructionErrors \cup {StrideError}

(* C15: the errors of a component size outside 1..4 and of a negative      *)
(* stride, offset or count are raised when the command is constructed, and *)
(* prepare of a constructed command raises none of them; the error of an   *)
(* oversized byte stride is raised by prepare alone, for a byte stride     *)
(* above 255, since the element byte size is known only then.              *)
C15_RangeErrorsAtConstructionStrideAtPrepare ==
    /\ Len(outcome) >= 1 =>
          IF OutOfRange THEN outcome[1] \in ConstructionErrors
          ELSE ~outcome[1].threw
    /\ Len(outcome) = 2 =>
          /\ outcome[2] \notin ConstructionErrors
          /\ outcome[2] = StrideError =>
                call.fn = "CmdSetAttrib" /\ call.stride * ElementByteSize > 255

\* A CmdSetAttrib of stride 64 was constructed, and its prepare on a
\* Float32Array buffer has thrown "stride is too big".
C15_Witness ==
    /\ call.fn = "CmdSetAttrib"
    /\ call.stride = 64
    /\ call.attribArray.type = "Float32Array"
    /\ Len(outcome) = 2
    /\ ~outcome[1].threw
    /\ outcome[2] = StrideError

----------------------------------------------------------------------------
\* The component count of the attribute: the declared size, or the size
\* the shader reports when none is declared.
EffectiveSize ==
    IF call.size # 0 THEN call.size
    ELSE CASE call.type = "gl.FLOAT"      -> 1
           [] call.type = "gl.FLOAT_VEC2" -> 2
           [] call.type = "gl.FLOAT_VEC3" -> 3
           [] OTHER                       -> 4

(* C16: every closure CmdSetAttrib.prepare emits has a component count s   *)
(* that is the declared size or else the shader's, 1 <= s <= 4, offset + s *)
(* within the buffer, byte stride = stride * element byte size <= 255 and  *)
(* byte offset = offset * element byte size; for an active attribute,      *)
(* prepare throws instead whenever offset + s or the byte stride is out of *)
(* bounds.                                                                 *)
C16_ClosureBounds ==
    (call.fn = "CmdSetAttrib" /\ Len(outcome) = 2) =>
        LET r == outcome[2]
            fits == /\ call.offset + EffectiveSize <= call.attribArray.length
                    /\ call.stride * ElementByteSize <= 255
        IN  /\ ~call.active => r = Returned(<<>>)
            /\ (call.active /\ ~fits) => r.threw /\ r.name = "RangeError"
            /\ (call.active /\ fits) =>
                  /\ ~r.threw
                  /\ Len(r.value) = 1
                  /\ r.value[1].size = EffectiveSize
                  /\ r.value[1].size \in 1..4
                  /\ r.value[1].stride = call.stride * ElementByteSize
                  /\ r.value[1].stride <= 255
                  /\ r.value[1].offset = call.offset * ElementByteSize

\* A closure emitted with the shader's size 3, byte stride 252 and byte
\* offset 4 on a Float32Array buffer of 4 elements.
C16_Witness ==
    /\ call.fn = "CmdSetAttrib"
    /\ call.size = 0
    /\ call.type = "gl.FLOAT_VEC3"
    /\ Len(outcome) = 2
    /\ ~outcome[2].threw
    /\ Len(outcome[2].value) = 1
    /\ outcome[2].value[1].size = 3
    /\ outcome[2].value[1].stride = 252
    /\ outcome[2].value[1].offset = 4

----------------------------------------------------------------------------
\* The fraction x is h / w, and x lies in [0, 1].
IsQuotient(x, h, w) == x[2] > 0 /\ x[1] * w = h * x[2]

InUnitInterval(x) == x[2] > 0 /\ 0 <= x[1] /\ x[1] <= x[2]

\* The aspect pair of a surface of width w and height h.
IsAspectPair(x, y, w, h) ==
    /\ w > h => IsQuotient(x, h, w) /\ y = <<1, 1>>
    /\ w < h => x = <<1, 1>> /\ IsQuotient(y, w, h)
    /\ w = h => x = <<1, 1>> /\ y = <<1, 1>>

(* C17: the aspect pair a RenderContext holds is the one of the width w    *)
(* and height h it was last recomputed for, which are its canvas's backing *)
(* size: (h/w, 1) if w > h, (1, w/h) if w < h, (1, 1) if w = h; both       *)
(* values lie in [0, 1] and one of them is 1.                              *)
C17_AspectPair ==
    \A c \in 1..Len(renderContexts) :
        LET ctx == renderContexts[c]
            canvas == canvases[ctx.canvas]
        IN  /\ IsAspectPair(ctx.aspectX, ctx.aspectY, canvas.width, canvas.height)
            /\ InUnitInterval(ctx.aspectX)
            /\ InUnitInterval(ctx.aspectY)
            /\ ctx.aspectX = <<1, 1>> \/ ctx.aspectY = <<1, 1>>

\* The pair was recomputed for a surface of 3 by 1 and render() has passed
\* (1/3, 1) to the stage.
C17_Witness ==
    /\ canvases[1].width = 3
    /\ canvases[1].height = 1
    /\ renderContexts[1].aspectX = <<1, 3>>
    /\ renderContexts[1].aspectY = <<1, 1>>
    /\ glCalls # <<>>
    /\ glCalls[1].op = "stage.render"
    /\ glCalls[1].args = <<<<1, 3>>, <<1, 1>>, <<3, 1>>>>

----------------------------------------------------------------------------
\* The stage.render invocations of the last render() call.
StageRenders == {k \in 1..Len(glCalls) : glCalls[k].op = "stage.render"}

(* C18: every stage.render invocation a render() call makes receives the   *)
(* aspect pair of the size the surface has at that render() call, the same *)
(* pair for every stage of the context, also when several contexts were    *)
(* built on the same canvas.                                               *)
C18_StagesGetFreshAspect ==
    \A k \in StageRenders :
        /\ IsAspectPair(glCalls[k].args[1], glCalls[k].args[2],
                        glCalls[k].args[3][1], glCalls[k].args[3][2])
        /\ \A j \in StageRenders :
              glCalls[j].args[1] = glCalls[k].args[1]
                  /\ glCalls[j].args[2] = glCalls[k].args[2]

\* The same for the contexts that have their canvas to themselves.
C18_FreshAspectOnOwnCanvas ==
    \A k \in StageRenders :
        (\A c \in 1..Len(renderContexts) :
            c # glCalls[k].context =>
                renderContexts[c].canvas # renderContexts[glCalls[k].context].canvas)
        => IsAspectPair(glCalls[k].args[1], glCalls[k].args[2],
                        glCalls[k].args[3][1], glCalls[k].args[3][2])

\* The second context on a shared canvas, now 1 by 2, has passed its stage
\* the pair (1/2, 1) of the size 2 by 1 it was constructed for.
C18_Stale ==
    /\ renderContexts[1].canvas = renderContexts[2].canvas
    /\ \E k \in StageRenders :
          /\ glCalls[k].context = 2
          /\ glCalls[k].args = <<<<1, 2>>, <<1, 1>>, <<1, 2>>>>

----------------------------------------------------------------------------
\* The scene objects whose mask meets the mask of stage s of context c.
Included(c, s) ==
    {i \in 1..Len(theScene) :
        BitAnd(theScene[i].inclusionFlags,
               renderContexts[c].renderStages[s].inclusionFlags) # 0}

\* The positions in glCalls of the calls made for stage s and object o.
CallsFor(s, o) ==
    {k \in 1..Len(glCalls) : glCalls[k].stage = s /\ glCalls[k].object = o}

(* C19: the calls of one render() come stage by stage in stage-list order; *)
(* a stage first clears, then takes the scene objects its mask includes,   *)
(* and only those, in scene order; an object's calls begin with the        *)
(* activation of its program and end with its draw, so every closure of an *)
(* earlier object runs before a later object's program is activated and    *)
(* every draw of an earlier stage comes before a later stage clears.       *)
C19_StageThenSceneOrder ==
    glCalls # <<>> =>
        LET c == glCalls[1].context
            stages == 1..Len(renderContexts[c].renderStages)
        IN  /\ \A k \in 1..Len(glCalls) : glCalls[k].context = c
            /\ \A j, k \in 1..Len(glCalls) :
                  j < k => \/ glCalls[j].stage < glCalls[k].stage
                           \/ /\ glCalls[j].stage = glCalls[k].stage
                              /\ glCalls[j].object <= glCalls[k].object
            /\ \A s \in stages :
                  /\ \E k \in CallsFor(s, 0) : glCalls[k].op = "gl.clear"
                  /\ \A i \in 1..Len(theScene) :
                        IF i \in Included(c, s)
                        THEN \E first, last \in CallsFor(s, i) :
                                /\ glCalls[first].op = "gl.useProgram"
                                /\ glCalls[last].op = "gl.drawElements"
                                /\ \A k \in CallsFor(s, i) : first <= k /\ k <= last
                                /\ \A k \in CallsFor(s, i) :
                                      glCalls[k].op = "gl.useProgram" => k = first
                        ELSE CallsFor(s, i) = {}

\* A render() of two stages, the first of which takes the second scene
\* object alone and the second both.
C19_Witness ==
    /\ glCalls # <<>>
    /\ glCalls[1].context = 1
    /\ Included(1, 1) = {2}
    /\ Included(1, 2) = {1, 2}
    /\ glCalls[Len(glCalls)].op = "gl.drawElements"
    /\ glCalls[Len(glCalls)].stage = 2
    /\ glCalls[Len(glCalls)].object = 2

----------------------------------------------------------------------------
(* C20: in a frame in which the render() of one surface throws, the        *)
(* exception is logged and render() is still called for every other        *)
(* surface: each canvas that has a context sees a stage.render.            *)
C20_OtherSurfacesStillRendered ==
    console # <<>> =>
        \A k \in UsedCanvases :
            \E j \in StageRenders : renderContexts[glCalls[j].context].canvas = k

\* The first surface's render() threw in a frame, the exception was logged
\* and the second surface, a canvas of its own, saw no render() at all.
C20_Halted ==
    /\ console # <<>>
    /\ console[1].name = "TypeError"
    /\ renderContexts[2].canvas # renderContexts[1].canvas
    /\ \A j \in 1..Len(glCalls) : glCalls[j].context = 1

----------------------------------------------------------------------------
\* Object i is at fault and the mask of some stage described includes it.
FailsToCompile ==
    \E i \in 1..2, c \in 1..Len(call.contextDescriptions) :
        \E s \in 1..Len(call.contextDescriptions[c].stages) :
            /\ call.faults[i] # "none"
            /\ BitAnd(call.flags[i],
                      call.contextDescriptions[c].stages[s].inclusionFlags) # 0

(* C21: compiling a scene object for a stage is all or nothing: when the   *)
(* allocation of a buffer or the prepare of a relevant command throws, the *)
(* exception reaches the caller of buildRenderContexts, no stage keeps a   *)
(* RenderObject of that scene object and no render call runs a closure of  *)
(* it; every RenderObject a stage keeps has all its closures.              *)
C21_CompileAllOrNothing ==
    (call.fn = "load" /\ outcome # <<>>) =>
        /\ outcome[1].threw = FailsToCompile
        /\ outcome[1].threw => renderContexts = <<>> /\ glCalls = <<>>
        /\ \A c \in 1..Len(renderContexts) :
              \A s \in 1..Len(renderContexts[c].renderStages) :
                  \A n \in 1..Len(renderContexts[c].renderStages[s].renderObjects) :
                      LET ro == renderContexts[c].renderStages[s].renderObjects[n]
                      IN  /\ call.faults[ro.sceneObject.id.at] = "none"
                          /\ Len(ro.preparedCommands) = 4
        /\ \A k \in 1..Len(glCalls) :
              glCalls[k].object # 0 => call.faults[glCalls[k].object] = "none"

\* The first context was built without the object at fault, which its mask
\* leaves out; the second context's stage includes it, its prepare threw
\* "stride is too big", and the listener holds no context.
C21_Witness ==
    /\ call.fn = "load"
    /\ call.faults = <<"stride", "none">>
    /\ call.flags = <<1, AllFlags>>
    /\ call.contextDescriptions[1].stages[1].inclusionFlags = 2
    /\ call.contextDescriptions[2].stages[1].inclusionFlags = AllFlags
    /\ outcome = <<Thrown("RangeError", "stride is too big")>>
    /\ renderContexts = <<>>

----------------------------------------------------------------------------
\* The command at authored position i names a buffer key that the scene
\* object's map for its kind of buffer does not have.
MissingKey(i) ==
    IF Cmds[i].kind = "CmdSetAttrib"
    THEN Cmds[i].bufferName \notin DOMAIN sceneObject.attribArrays
    ELSE Cmds[i].bufferName \notin DOMAIN sceneObject.elementArrays

\* The commands whose buffers the compilation allocates: the passing
\* SetAttribute commands of an active attribute and the passing DrawIndexed
\* commands.
BufferUsers == ActiveSetAttribs \cup PassingDraws

\* Whatever command of the list names a missing key, compiling the object
\* for a stage that includes it fails.
C22_AnyMissingKeyFails ==
    (/\ renderStage.state # "none"
     /\ ObjectPasses
     /\ \E i \in 1..Len(Cmds) : MissingKey(i))
    => renderStage.state = "threw"

(* C22: compiling a scene object for a stage that includes it fails, with  *)
(* the TypeError of the buffer allocation, if a command that is relevant   *)
(* for the stage (a SetAttribute only when its attribute is active in the  *)
(* stage's program) names a buffer key missing from the scene object's     *)
(* map; a missing key named only by other commands raises no such error.   *)
C22_RelevantMissingKeyFails ==
    (renderStage.state # "none" /\ ObjectPasses) =>
        IF \E i \in BufferUsers : MissingKey(i)
        THEN /\ renderStage.state = "threw"
             /\ renderStage.error = Thrown("TypeError", "cannot destructure undefined")
        ELSE renderStage.state = "threw" =>
                renderStage.error.name # "TypeError"

\* A relevant draw command names the missing key "nokey" and the stage was
\* not constructed.
C22_Witness ==
    /\ renderStage.state = "threw"
    /\ ObjectPasses
    /\ \E i \in PassingDraws : MissingKey(i)

\* A SetAttribute command whose attribute the program does not use names
\* the missing key, and the object is compiled.
C22_CompiledWithMissingKey ==
    /\ Compiled
    /\ ObjectPasses
    /\ Len(renderStage.renderObjects) = 1
    /\ \E i \in InactiveSetAttribs : MissingKey(i)

----------------------------------------------------------------------------
(* C23: a constructed stage holds, in its cached field of view, aspects,   *)
(* near and far, values that no current value equals, so that the render   *)
(* call that follows the construction finds the field of view or the       *)
(* aspect changed for entry [0] and for entry [5], and near or far changed *)
(* for entries [10] and [14], and recomputes all four.                     *)
C23_FirstRenderRecomputesAll ==
    [][(lastCall.op = "new" /\ lastCall'.op = "render") =>
            /\ _fieldOfView \notin FieldsOfView
            /\ _aspectX \notin Aspects /\ _aspectY \notin Aspects
            /\ _zNear \notin 1..MaxPlane /\ _zFar \notin (1..MaxPlane) \cup {Infinity}
            /\ fieldOfView # _fieldOfView \/ lastCall'.aspectX # _aspectX
            /\ fieldOfView # _fieldOfView \/ lastCall'.aspectY # _aspectY
            /\ zNear # _zNear \/ zFar # _zFar]_vars

\* A stage constructed with fieldOfView 90 and rendered once with the
\* aspect pair (1, 1) has the entries [0] and [5] _initPerspective put
\* there, not the products a recomputation gives.
C23_NotRecomputed ==
    /\ lastCall = [op |-> "render", aspectX |-> "1", aspectY |-> "1"]
    /\ fieldOfView = 90
    /\ projection[0] = "1"
    /\ projection[5] = "1"
    /\ MulD(ViewRangeOf(90), "1") = "0.9999999999999999"

----------------------------------------------------------------------------
\* The positions in glCalls of the uploads of the projection uniform, and
\* of the draws.
ProjectionUploads ==
    {k \in 1..Len(glCalls) :
        /\ glCalls[k].op = "gl.uniformMatrix4fv"
        /\ glCalls[k].args[3].data[1] = "projection"}

Draws == {k \in 1..Len(glCalls) : glCalls[k].op = "gl.drawElements"}

(* C24: in a render call of a stage the projection matrix is adjusted to   *)
(* the call's aspect pair and the current field of view, near and far      *)
(* before anything is uploaded: every upload of the projection uniform     *)
(* carries the matrix the call leaves, whose entries [0] and [5] are the   *)
(* products of the view range with this call's aspects.  The viewport is   *)
(* set before the clear, every draw comes after the clear, and the calls   *)
(* made for an object begin with the activation of its program.            *)
C24_AdjustThenClearThenObjects ==
    lastCall.op = "render" =>
        /\ \A k \in ProjectionUploads :
              LET m == glCalls[k].args[3].data[2]
              IN  /\ m = projection
                  /\ m[0] = MulD(_viewRange, lastCall.aspectX)
                  /\ m[5] = MulD(_viewRange, lastCall.aspectY)
                  /\ m[10] = PerspectiveZ(zNear, zFar)
                  /\ m[14] = PerspectiveW(zNear, zFar)
        /\ \E v, c \in 1..Len(glCalls) :
              /\ glCalls[v].op = "gl.viewport"
              /\ glCalls[c].op = "gl.clear"
              /\ v < c
              /\ \A k \in Draws \cup ProjectionUploads : c < k
        /\ \A k \in 1..Len(glCalls) :
              glCalls[k].object # 0 =>
                  \E u \in 1..k :
                      /\ glCalls[u].op = "gl.useProgram"
                      /\ glCalls[u].object = glCalls[k].object
                      /\ \A j \in 1..(u - 1) : glCalls[j].object # glCalls[k].object

\* A render call with another aspect pair and another field of view than
\* the call before it, both objects drawn with the new entries uploaded.
C24_Witness ==
    /\ lastCall = [op |-> "render", aspectX |-> "0.5", aspectY |-> "0.75"]
    /\ fieldOfView = 60
    /\ Cardinality(ProjectionUploads) = 2
    /\ Cardinality(Draws) = 2
    /\ \A k \in ProjectionUploads :
          /\ glCalls[k].args[3].data[2][0] = "0.8660254037844388"
          /\ glCalls[k].args[3].data[2][5] = "1.2990381056766582"

----------------------------------------------------------------------------
(* C25: over any sequence of createVertexShader and createFragmentShader   *)
(* calls loadShader is sent at most one request per normalized URL, and a  *)
(* call whose normalized URL has been loaded before takes its source from  *)
(* the cache.                                                              *)
C25_LoadedOncePerURL ==
    /\ \A i, j \in 1..Len(loads) : loads[i].href = loads[j].href => i = j
    /\ lastShader.kind # "none" =>
          (lastShader.fromCache <=>
              \E i \in 1..(Len(loads) - 1) : loads[i].href = lastShader.href)

\* The vertex shader created twice from one URL, its source requested
\* twice, the cache holding two entries for the one href.
C25_LoadedAgain ==
    /\ Len(loads) = 2
    /\ loads[1] = loads[2]
    /\ Cardinality(DOMAIN _cache.vertex) = 2
    /\ \A k1, k2 \in DOMAIN _cache.vertex : k1.href = k2.href
    /\ ~lastShader.fromCache

----------------------------------------------------------------------------
(* C26: at the step in which the promise compileAndLinkProgram returned is *)
(* rejected, every shader object created during the call up to then has    *)
(* been deleted, whichever creation failed and in whatever order the two   *)
(* creations took their steps.                                             *)
C26_RejectedLeavesNoShader ==
    [][(tasks.main # "rejected" /\ tasks'.main = "rejected") =>
            \A k \in 1..Len(glShaders') : glShaders'[k].deleted]_vars

\* The fragment shader created, the vertex shader's fetch failed, the
\* returned promise rejected and the fragment shader still there.
C26_ShaderLeaked ==
    /\ tasks.main = "rejected"
    /\ tasks.vertex.pc = "rejected"
    /\ tasks.fragment.pc = "fulfilled"
    /\ tasks.shaders = <<>>
    /\ ~glShaders[tasks.fragment.shader].deleted

----------------------------------------------------------------------------
\* The source of the call's command is one of the enumeration.
SourceSupported == call.cmd.source \in {RENDER_OBJECT, RENDER_STAGE, SCENE_OBJECT, FIRST_FOUND}

\* An object the command's source names has the command's property: the
\* scene object has matrix, the stage has view, the render object neither.
PropertyFound ==
    \/ call.cmd.source = SCENE_OBJECT /\ call.cmd.propertyName = "matrix"
    \/ call.cmd.source = RENDER_STAGE /\ call.cmd.propertyName = "view"
    \/ call.cmd.source = FIRST_FOUND /\ call.cmd.propertyName \in {"matrix", "view"}

(* C27: prepare of the uniform matrix command resolves the property before *)
(* it looks up the uniform.  Whether the program has the uniform or not, a *)
(* source outside the enumeration is a RangeError and a property no        *)
(* candidate has is a ReferenceError; for a uniform the program does not   *)
(* have, prepare returns no closure exactly when the property resolves.    *)
C27_ResolvesBeforeLookup ==
    (call.fn = "CmdUniformMatrix.prepare" /\ outcome # <<>>) =>
        /\ ~SourceSupported =>
              outcome[1] = Thrown("RangeError", "unsupported uniform source")
        /\ (SourceSupported /\ ~PropertyFound) =>
              outcome[1] = Thrown("ReferenceError", "property not found")
        /\ (~call.active /\ SourceSupported /\ PropertyFound) =>
              outcome[1] = Returned(<<>>)

\* A command for a uniform the program does not have, reading a property
\* the stage does not have: prepare has thrown the ReferenceError.
C27_Witness ==
    /\ call.fn = "CmdUniformMatrix.prepare"
    /\ ~call.active
    /\ call.cmd.source = RENDER_STAGE
    /\ call.cmd.propertyName = "missing"
    /\ outcome = <<Thrown("ReferenceError", "property not found")>>

----------------------------------------------------------------------------
(* C28: a render call of a stage changes no entry of the projection matrix *)
(* but [0], [5], [10] and [14].  It leaves [0] as it was when the field of *)
(* view and the call's aspectX are the cached ones, [5] likewise with      *)
(* aspectY, and [10] and [14] when zNear and zFar are the cached ones.     *)
C28_WritesOnlyWhatChanged ==
    [][lastCall'.op = "render" =>
            /\ \A i \in (0..15) \ {0, 5, 10, 14} : projection'[i] = projection[i]
            /\ (fieldOfView = _fieldOfView /\ lastCall'.aspectX = _aspectX) =>
                  projection'[0] = projection[0]
            /\ (fieldOfView = _fieldOfView /\ lastCall'.aspectY = _aspectY) =>
                  projection'[5] = projection[5]
            /\ (zNear = _zNear /\ zFar = _zFar) =>
                  /\ projection'[10] = projection[10]
                  /\ projection'[14] = projection[14]]_vars

\* A constructed stage of the default field of view and planes rendered
\* with the aspect pair (1, 0.5): [5] is written, [0], [10] and [14] are
\* those _initPerspective installed.
C28_Witness ==
    /\ lastCall = [op |-> "render", aspectX |-> "1", aspectY |-> "0.5"]
    /\ fieldOfView = 90 /\ zNear = 1 /\ zFar = Infinity
    /\ projection = [Skeleton EXCEPT ![5] = "0.5"]

----------------------------------------------------------------------------
(* C29: constructing a SceneObject from an element descriptor whose index  *)
(* list is empty throws a TypeError, and no object with an empty index     *)
(* buffer comes to be; an attribute descriptor whose data list is empty is *)
(* stored as a Uint8Array of length 0, and alone does not make the         *)
(* constructor throw.                                                      *)
C29_EmptyIndicesThrowEmptyDataStored ==
    (call.fn = "new SceneObject" /\ outcome # <<>>) =>
        /\ call.indices = <<>> =>
              /\ outcome[1].result.threw
              /\ outcome[1].result.name = "TypeError"
        /\ call.data = <<>> =>
              outcome[1].attribArrays["main"] =
                  [type |-> "Uint8Array", length |-> 0, data |-> <<>>]
        /\ (call.data = <<>> /\ call.indices # <<>>) =>
              /\ ~outcome[1].result.threw
              /\ outcome[1].result.value.attribArrays["main"].type = "Uint8Array"
              /\ outcome[1].result.value.attribArrays["main"].length = 0
              /\ outcome[1].result.value.elementArrays["main"].length = Len(call.indices)

\* A SceneObject constructed from an empty data list and an empty index
\* list: the data was stored as an empty Uint8Array, then the TypeError
\* left the constructor.
C29_Witness ==
    /\ call = [fn |-> "new SceneObject", data |-> <<>>, indices |-> <<>>]
    /\ outcome # <<>>
    /\ outcome[1].attribArrays["main"].type = "Uint8Array"
    /\ outcome[1].attribArrays["main"].length = 0
    /\ outcome[1].result.threw

----------------------------------------------------------------------------
(* C30: once a frame is requested a frame stays requested: every run of    *)
(* the frame callback, one whose render call threw included, ends with the *)
(* request for the next frame; and with the browser delivering every       *)
(* requested frame, frames are rendered again and again without end.       *)
C30_FramesKeepComing ==
    /\ [][animationFrameCallbacks # <<>> =>
              animationFrameCallbacks' = <<"renderAnimationCallback">>]_vars
    /\ []<><<AnimationFrame>>_vars

\* A frame in which a render call threw, the error on the console, the
\* frame's time stamp kept and the next frame requested.
C30_Witness ==
    /\ console # <<>>
    /\ then # 0
    /\ animationFrameCallbacks = <<"renderAnimationCallback">>

====
